---- MODULE Spec2Model ----
(***************************************************************************)
(* pdf-lingua: the job store (JobService over the Job and File tables),    *)
(* the upload handler POST /api/upload and the background pipeline          *)
(* processJob -> extractAndTranslate -> generateFinalPdfs.                  *)
(*                                                                         *)
(* Every await of the handlers is a point where another job's handler may  *)
(* run, so each handler is cut at the calls that read or write the store   *)
(* or an external tool.  A store call that throws leaves its row as it     *)
(* was (every mutation is one atomic update of one row).                    *)
(*                                                                         *)
(* PdfService.translateHtml is taken apart into its extraction loop         *)
(* (ExtractSpec), its batching loop (BatchSpec), its requests and apply     *)
(* loop (DispatchSpec) and replaceTextWhilePreservingTags (ReinsertSpec);   *)
(* StreamSpec adds the progress stream GET /api/jobs/[jobId]/progress to    *)
(* the upload and pipeline of one job.                                      *)
(***************************************************************************)
EXTENDS Naturals, Sequences, FiniteSets, TLC

\* Largest number of files in an accepted upload request of the model.
MaxFiles == 2

\* POST: "if (uploadedFiles.length > 5)" rejects the request.
UploadLimit == 5

\* Job ids the store hands out (uuid() in the schema): two concurrent jobs.
JobIds == {"j1", "j2"}

\* A null column (currentStep, translatedName, translatedPath are nullable).
NULL == "<null>"

\* Values of the "language" form field; "" is the missing field.
Languages == {"", "fr"}

\* enum JobStatus and enum ProcessStep of the schema.
JobStatus == {"QUEUED", "PROCESSING", "COMPLETED", "FAILED"}

ProcessStep == {"UPLOAD", "EXTRACT", "TRANSLATE", "GENERATE"}

\* The order of the enum ProcessStep; a null step is before every step.
StepOrd(s) ==
  CASE s = "UPLOAD" -> 1
    [] s = "EXTRACT" -> 2
    [] s = "TRANSLATE" -> 3
    [] s = "GENERATE" -> 4
    [] OTHER -> 0

Terminal(status) == status \in {"COMPLETED", "FAILED"}

\* What an uploaded file can be: a PDF within the size limit, a file over
\* 5 MB, or a file whose type is not application/pdf.
FileKinds == {"pdf", "tooBig", "notPdf"}

\* Outcomes of pdfService.convertPdfToHtml for one file: the tool ran and
\* its output was read, the tool failed (exec rejects), or the output file
\* could not be read (readFile rejects).  Both failures throw.
ConvertOutcomes == {"ok", "toolFails", "unreadable"}

\* Outcomes of one iteration of the generation loop: the rendering backend
\* answers non-ok or fetch throws (generatePdfFromHtml throws before
\* writeFile), the artifact is written but updateFileWithTranslation throws,
\* or everything succeeds.  translateHtml rethrowing is not drawn apart: it
\* too is thrown before writeFile into the same catch of the loop, and leaves
\* the store and the disk exactly as a rendering failure does.
GenerateOutcomes == {"renderFails", "storeThrows", "ok"}

VARIABLES
  jobs,              \* Job table: job id -> row (only the created jobs)
  files,             \* File table: job id -> the job's File rows, in creation order
  pc,                \* where each request / pipeline is
  response,          \* HTTP status POST answered with, 0 while none
  nFiles,            \* number of files in the request's form data
  idx,               \* position of the current for-of loop
  extractedContents, \* the local list extractAndTranslate hands to generateFinalPdfs
  artifacts,         \* translated PDFs on disk: the output paths written
  converted,         \* history: what convertPdfToHtml did per file row ("html" / "throws")
  generated,         \* history: the generation loop's outcome per extracted content
  writes,            \* history: the (status, currentStep, percentage) written to each job
  call,              \* a call of a PdfService method taken alone: its name and arguments
  frame,             \* the local variables of that call, under the source's names
  result,            \* what that call has returned, [done |-> FALSE] until it returns
  streams            \* the progress streams (GET /api/jobs/[jobId]/progress), one per observer

\* The store, the upload handler and the pipeline.
pipeVars == << jobs, files, pc, response, nFiles, idx, extractedContents,
               artifacts, converted, generated, writes >>

\* One PdfService call taken alone.
fnVars == << call, frame, result >>

vars == << pipeVars, fnVars, streams >>

\* No PdfService call is being looked at.
NoCall ==
  /\ call = [ fn |-> "none" ]
  /\ frame = [ at |-> "none" ]
  /\ result = [ done |-> FALSE ]

\* No job exists and no request is being handled.
NoPipeline ==
  /\ jobs = << >>
  /\ files = [ j \in JobIds |-> << >> ]
  /\ pc = [ j \in JobIds |-> "idle" ]
  /\ response = [ j \in JobIds |-> 0 ]
  /\ nFiles = [ j \in JobIds |-> 0 ]
  /\ idx = [ j \in JobIds |-> 0 ]
  /\ extractedContents = [ j \in JobIds |-> << >> ]
  /\ artifacts = {}
  /\ converted = [ j \in JobIds |-> << >> ]
  /\ generated = [ j \in JobIds |-> << >> ]
  /\ writes = [ j \in JobIds |-> << >> ]

\* No observer is connected.
NoStreams == streams = << >>

----------------------------------------------------------------------------
\* JobService

\* createJob without the currentStep field: the column's default (null).
createJob_noStep(language) ==
  [ status |-> "QUEUED", language |-> language,
    currentStep |-> NULL, percentage |-> 0 ]

\* createJob: prisma.job.create with status QUEUED, currentStep UPLOAD, 0 %.
createJob(language) ==
  [ status |-> "QUEUED", language |-> language,
    currentStep |-> "UPLOAD", percentage |-> 0 ]

\* addFile: prisma.file.create; translatedName / translatedPath default to null.
addFile(jobId, fileName, filePath) ==
  [ jobId |-> jobId, originalName |-> fileName, originalPath |-> filePath,
    translatedName |-> NULL, translatedPath |-> NULL ]

\* updateFileWithTranslation: prisma.file.update of both columns.
updateFileWithTranslation(file, translatedName, translatedPath) ==
  [ file EXCEPT !.translatedName = translatedName,
                !.translatedPath = translatedPath ]

\* updateJobProgress: prisma.job.update of the three columns, unconditionally.
updateJobProgress(job, status, step, percentage) ==
  [ job EXCEPT !.status = status, !.currentStep = step,
               !.percentage = percentage ]

\* JavaScript truthiness of a nullable string column.
Truthy(s) == s # NULL /\ s # ""

RECURSIVE SelectSeq2(_, _)
\* Array.prototype.filter over the file rows, keeping their order.
SelectSeq2(s, keep) ==
  IF s = << >> THEN << >>
  ELSE (IF keep[1] THEN << Head(s) >> ELSE << >>)
       \o SelectSeq2(Tail(s), Tail(keep))

\* formatJobResponse without the .filter(...): every file row is listed.
formatJobResponse_unfiltered(job, jobFiles) ==
  [ status |-> job.status,
    language |-> job.language,
    progress |-> [ step |-> IF job.currentStep = NULL THEN "upload"
                            ELSE job.currentStep,
                   percentage |-> job.percentage ],
    results |-> [ i \in 1..Len(jobFiles) |->
                    [ id |-> i, originalName |-> jobFiles[i].originalName,
                      translatedName |-> jobFiles[i].translatedName ] ] ]

\* formatJobResponse: the snapshot sent to observers.  ids of the results are
\* the file rows' positions in the job.
formatJobResponse(job, jobFiles) ==
  [ status |-> job.status,
    language |-> job.language,
    progress |-> [ step |-> IF job.currentStep = NULL THEN "upload"
                            ELSE job.currentStep,
                   percentage |-> job.percentage ],
    results |-> SelectSeq2(
                  [ i \in 1..Len(jobFiles) |->
                      [ id |-> i, originalName |-> jobFiles[i].originalName,
                        translatedName |-> jobFiles[i].translatedName ] ],
                  [ i \in 1..Len(jobFiles) |->
                      Truthy(jobFiles[i].translatedName)
                      /\ Truthy(jobFiles[i].translatedPath) ]) ]

----------------------------------------------------------------------------
\* Paths (path.join, path.basename) and the names of uploaded files

\* The i-th file of a request (file.name).
FileName(i) == "f" \o ToString(i) \o ".pdf"

\* path.join(a, b)
join(a, b) == a \o "/" \o b

\* path.join(process.cwd(), "uploads", jobId)
uploadDir(jobId) == join("uploads", jobId)

\* path.join(process.cwd(), "uploads", jobId, "translated")
translatedDir(jobId) == join(uploadDir(jobId), "translated")

\* path.basename of a path below an upload directory.
basename(p) ==
  CHOOSE n \in { FileName(i) : i \in 1..(UploadLimit + 1) } :
    \E j \in JobIds : join(uploadDir(j), n) = p

\* generateFinalPdfs: `translated_${fileName}`
translatedNameOf(filePath) == "translated_" \o basename(filePath)

----------------------------------------------------------------------------
\* The records each stage writes with updateJobProgress

\* POST, after the files are saved: PROCESSING / UPLOAD / 25.
POST_progress(job) == updateJobProgress(job, "PROCESSING", "UPLOAD", 25)

\* processJob writing the step it is leaving instead of the one it enters.
processJob_progress_sameStep(job) ==
  updateJobProgress(job, "PROCESSING", "UPLOAD", 50)

\* processJob: PROCESSING / EXTRACT / 50.
processJob_progress(job) == updateJobProgress(job, "PROCESSING", "EXTRACT", 50)

\* processJob, catch: FAILED / UPLOAD / 0.
processJob_failed(job) == updateJobProgress(job, "FAILED", "UPLOAD", 0)

\* extractAndTranslate, after the extraction loop: PROCESSING / TRANSLATE / 75.
extractAndTranslate_progress(job) ==
  updateJobProgress(job, "PROCESSING", "TRANSLATE", 75)

\* extractAndTranslate, catch: FAILED / EXTRACT / 50.
extractAndTranslate_failed(job) == updateJobProgress(job, "FAILED", "EXTRACT", 50)

\* The record before the generation loop with the status of the record
\* after it: a mistaken variant.
generateFinalPdfs_progress_completed(job) ==
  updateJobProgress(job, "COMPLETED", "GENERATE", 100)

\* generateFinalPdfs, before the generation loop: PROCESSING / GENERATE / 100.
generateFinalPdfs_progress(job) ==
  updateJobProgress(job, "PROCESSING", "GENERATE", 100)

\* generateFinalPdfs, after the generation loop: COMPLETED / GENERATE / 100.
generateFinalPdfs_completed(job) ==
  updateJobProgress(job, "COMPLETED", "GENERATE", 100)

\* generateFinalPdfs, catch: FAILED / TRANSLATE / 75.
generateFinalPdfs_failed(job) == updateJobProgress(job, "FAILED", "TRANSLATE", 75)

\* The three columns of a job row that updateJobProgress writes.
Progress(job) ==
  [ status |-> job.status, currentStep |-> job.currentStep,
    percentage |-> job.percentage ]

\* The store after job j's row is replaced by `row`, and the history of it.
Store(j, row) ==
  /\ jobs' = [ jobs EXCEPT ![j] = row ]
  /\ writes' = [ writes EXCEPT ![j] = Append(@, Progress(row)) ]

----------------------------------------------------------------------------
\* POST /api/upload

\* The checks POST makes before it creates the job: the 400 message, or "ok".
validate(language, n) ==
  IF language = "" THEN "Target language is required"
  ELSE IF n = 0 THEN "At least one file is required"
  ELSE IF n > UploadLimit THEN "Maximum 5 files allowed"
  ELSE "ok"

\* The requests of the model: a language and a number of files.
Requests ==
  { r \in [ language : Languages, n : (0..MaxFiles) \cup {UploadLimit + 1} ] : TRUE }

Init ==
  /\ jobs = << >>
  /\ files = [ j \in JobIds |-> << >> ]
  /\ pc = [ j \in JobIds |-> "idle" ]
  /\ response = [ j \in JobIds |-> 0 ]
  /\ nFiles = [ j \in JobIds |-> 0 ]
  /\ idx = [ j \in JobIds |-> 0 ]
  /\ extractedContents = [ j \in JobIds |-> << >> ]
  /\ artifacts = {}
  /\ converted = [ j \in JobIds |-> << >> ]
  /\ generated = [ j \in JobIds |-> << >> ]
  /\ writes = [ j \in JobIds |-> << >> ]
  /\ NoCall
  /\ NoStreams

\* A request that fails validation is answered 400 before any job exists.
POST_invalid(j) ==
  /\ pc[j] = "idle"
  /\ \E r \in Requests : validate(r.language, r.n) # "ok"
  /\ pc' = [ pc EXCEPT ![j] = "responded" ]
  /\ response' = [ response EXCEPT ![j] = 400 ]
  /\ UNCHANGED << jobs, files, nFiles, idx, extractedContents, artifacts,
                  converted, generated, writes >>
  /\ UNCHANGED << fnVars, streams >>

\* A valid request: createJob, then mkdir of the job's upload directory.
POST_createJob(j) ==
  /\ pc[j] = "idle"
  /\ \E r \in Requests :
       /\ validate(r.language, r.n) = "ok"
       /\ jobs' = jobs @@ (j :> createJob(r.language))
       /\ writes' = [ writes EXCEPT ![j] = << Progress(createJob(r.language)) >> ]
       /\ nFiles' = [ nFiles EXCEPT ![j] = r.n ]
  /\ pc' = [ pc EXCEPT ![j] = "POST_files" ]
  /\ idx' = [ idx EXCEPT ![j] = 1 ]
  /\ UNCHANGED << files, response, extractedContents, artifacts, converted,
                  generated >>
  /\ UNCHANGED << fnVars, streams >>

\* One iteration of "for (const file of uploadedFiles)": a file over 5 MB or
\* not a PDF answers 400 (the job and the rows added so far stay); otherwise
\* the file is written to disk and addFile records it.
POST_file(j) ==
  /\ pc[j] = "POST_files"
  /\ idx[j] <= nFiles[j]
  /\ \E kind \in FileKinds :
       IF kind = "pdf"
       THEN /\ files' = [ files EXCEPT ![j] =
                 Append(@, addFile(j, FileName(idx[j]),
                                   join(uploadDir(j), FileName(idx[j])))) ]
            /\ idx' = [ idx EXCEPT ![j] = @ + 1 ]
            /\ UNCHANGED << pc, response >>
       ELSE /\ pc' = [ pc EXCEPT ![j] = "responded" ]
            /\ response' = [ response EXCEPT ![j] = 400 ]
            /\ UNCHANGED << files, idx >>
  /\ UNCHANGED << jobs, nFiles, extractedContents, artifacts, converted,
                  generated, writes >>
  /\ UNCHANGED << fnVars, streams >>

\* After the loop: updateJobProgress(PROCESSING, UPLOAD, 25), processJob is
\* started without being awaited, and the request is answered with the job id.
POST_accept(j) ==
  /\ pc[j] = "POST_files"
  /\ idx[j] > nFiles[j]
  /\ Store(j, POST_progress(jobs[j]))
  /\ pc' = [ pc EXCEPT ![j] = "processJob" ]
  /\ response' = [ response EXCEPT ![j] = 200 ]
  /\ UNCHANGED << files, nFiles, idx, extractedContents, artifacts, converted,
                  generated >>
  /\ UNCHANGED << fnVars, streams >>

\* Any await of POST after createJob throws (mkdir, writeFile, addFile,
\* updateJobProgress): the outer catch answers 500.
POST_throws(j) ==
  /\ pc[j] = "POST_files"
  /\ pc' = [ pc EXCEPT ![j] = "responded" ]
  /\ response' = [ response EXCEPT ![j] = 500 ]
  /\ UNCHANGED << jobs, files, nFiles, idx, extractedContents, artifacts,
                  converted, generated, writes >>
  /\ UNCHANGED << fnVars, streams >>

----------------------------------------------------------------------------
\* processJob

\* The try block runs through: getJob, mkdir of the translated directory,
\* the pacing delay, updateJobProgress(PROCESSING, EXTRACT, 50), the second
\* delay, and the timer that starts extractAndTranslate.
processJob(j) ==
  /\ pc[j] = "processJob"
  /\ Store(j, processJob_progress(jobs[j]))
  /\ pc' = [ pc EXCEPT ![j] = "extractAndTranslate" ]
  /\ UNCHANGED << files, response, nFiles, idx, extractedContents, artifacts,
                  converted, generated >>
  /\ UNCHANGED << fnVars, streams >>

\* getJob, mkdir or updateJobProgress throws inside the try block.
processJob_throws(j) ==
  /\ pc[j] = "processJob"
  /\ pc' = [ pc EXCEPT ![j] = "processJob_catch" ]
  /\ UNCHANGED << jobs, files, response, nFiles, idx, extractedContents,
                  artifacts, converted, generated, writes >>
  /\ UNCHANGED << fnVars, streams >>

\* processJob's catch block with the timer that starts extractAndTranslate
\* placed after the try statement, so that it also runs after a failure.
processJob_catch_continues(j) ==
  /\ pc[j] = "processJob_catch"
  /\ Store(j, processJob_failed(jobs[j]))
  /\ pc' = [ pc EXCEPT ![j] = "extractAndTranslate" ]
  /\ UNCHANGED << files, response, nFiles, idx, extractedContents, artifacts,
                  converted, generated >>
  /\ UNCHANGED << fnVars, streams >>

\* The catch block: updateJobProgress(FAILED, UPLOAD, 0).
processJob_catch(j) ==
  /\ pc[j] = "processJob_catch"
  /\ Store(j, processJob_failed(jobs[j]))
  /\ pc' = [ pc EXCEPT ![j] = "done" ]
  /\ UNCHANGED << files, response, nFiles, idx, extractedContents, artifacts,
                  converted, generated >>
  /\ UNCHANGED << fnVars, streams >>

----------------------------------------------------------------------------
\* extractAndTranslate

\* pdfService.convertPdfToHtml: returns the markup when the tool ran and its
\* output was read; any failure inside is rethrown as "Failed to extract text
\* from PDF".
convertPdfToHtml(outcome) == IF outcome = "ok" THEN "html" ELSE "throws"

\* getJob returns the job with its files; the extraction loop starts.
extractAndTranslate_getJob(j) ==
  /\ pc[j] = "extractAndTranslate"
  /\ pc' = [ pc EXCEPT ![j] = "extract_loop" ]
  /\ idx' = [ idx EXCEPT ![j] = 1 ]
  /\ extractedContents' = [ extractedContents EXCEPT ![j] = << >> ]
  /\ UNCHANGED << jobs, files, response, nFiles, artifacts, converted,
                  generated, writes >>
  /\ UNCHANGED << fnVars, streams >>

\* The extraction loop without its own try / catch: a conversion failure
\* reaches the catch block of extractAndTranslate.
extractAndTranslate_file_fatal(j) ==
  /\ pc[j] = "extract_loop"
  /\ idx[j] <= Len(files[j])
  /\ \E outcome \in ConvertOutcomes :
       /\ extractedContents' = [ extractedContents EXCEPT ![j] =
            IF convertPdfToHtml(outcome) = "html"
            THEN Append(@, [ fileId |-> idx[j],
                             filePath |-> files[j][idx[j]].originalPath ])
            ELSE @ ]
       /\ converted' = [ converted EXCEPT ![j] =
            Append(@, convertPdfToHtml(outcome)) ]
       /\ pc' = [ pc EXCEPT ![j] =
            IF convertPdfToHtml(outcome) = "html" THEN @ ELSE "extract_catch" ]
  /\ idx' = [ idx EXCEPT ![j] = @ + 1 ]
  /\ UNCHANGED << jobs, files, response, nFiles, artifacts, generated,
                  writes >>
  /\ UNCHANGED << fnVars, streams >>

\* One iteration of "for (const file of job.files)": convertPdfToHtml either
\* returns the markup, which is pushed to extractedContents, or throws, which
\* the loop's own catch logs.
extractAndTranslate_file(j) ==
  /\ pc[j] = "extract_loop"
  /\ idx[j] <= Len(files[j])
  /\ \E outcome \in ConvertOutcomes :
       /\ extractedContents' = [ extractedContents EXCEPT ![j] =
            IF convertPdfToHtml(outcome) = "html"
            THEN Append(@, [ fileId |-> idx[j],
                             filePath |-> files[j][idx[j]].originalPath ])
            ELSE @ ]
       /\ converted' = [ converted EXCEPT ![j] =
            Append(@, convertPdfToHtml(outcome)) ]
  /\ idx' = [ idx EXCEPT ![j] = @ + 1 ]
  /\ UNCHANGED << jobs, files, pc, response, nFiles, artifacts, generated,
                  writes >>
  /\ UNCHANGED << fnVars, streams >>

\* extractAndTranslate ending after its write, without the timer that starts
\* generateFinalPdfs.
extractAndTranslate_update_noTimer(j) ==
  /\ pc[j] = "extract_loop"
  /\ idx[j] > Len(files[j])
  /\ Store(j, extractAndTranslate_progress(jobs[j]))
  /\ pc' = [ pc EXCEPT ![j] = "done" ]
  /\ UNCHANGED << files, response, nFiles, idx, extractedContents, artifacts,
                  converted, generated >>
  /\ UNCHANGED << fnVars, streams >>

\* After the loop: updateJobProgress(PROCESSING, TRANSLATE, 75), the pacing
\* delay, and the timer that starts generateFinalPdfs.
extractAndTranslate_update(j) ==
  /\ pc[j] = "extract_loop"
  /\ idx[j] > Len(files[j])
  /\ Store(j, extractAndTranslate_progress(jobs[j]))
  /\ pc' = [ pc EXCEPT ![j] = "generateFinalPdfs" ]
  /\ UNCHANGED << files, response, nFiles, idx, extractedContents, artifacts,
                  converted, generated >>
  /\ UNCHANGED << fnVars, streams >>

\* getJob (before the loop) or updateJobProgress (after it) throws.
extractAndTranslate_throws(j) ==
  /\ \/ pc[j] = "extractAndTranslate"
     \/ pc[j] = "extract_loop" /\ idx[j] > Len(files[j])
  /\ pc' = [ pc EXCEPT ![j] = "extract_catch" ]
  /\ UNCHANGED << jobs, files, response, nFiles, idx, extractedContents,
                  artifacts, converted, generated, writes >>
  /\ UNCHANGED << fnVars, streams >>

\* The catch block: updateJobProgress(FAILED, EXTRACT, 50).
extractAndTranslate_catch(j) ==
  /\ pc[j] = "extract_catch"
  /\ Store(j, extractAndTranslate_failed(jobs[j]))
  /\ pc' = [ pc EXCEPT ![j] = "done" ]
  /\ UNCHANGED << files, response, nFiles, idx, extractedContents, artifacts,
                  converted, generated >>
  /\ UNCHANGED << fnVars, streams >>

----------------------------------------------------------------------------
\* generateFinalPdfs

\* getJob, then updateJobProgress(PROCESSING, GENERATE, 100); the generation
\* loop starts.
generateFinalPdfs_update(j) ==
  /\ pc[j] = "generateFinalPdfs"
  /\ Store(j, generateFinalPdfs_progress(jobs[j]))
  /\ pc' = [ pc EXCEPT ![j] = "generate_loop" ]
  /\ idx' = [ idx EXCEPT ![j] = 1 ]
  /\ UNCHANGED << files, response, nFiles, extractedContents, artifacts,
                  converted, generated >>
  /\ UNCHANGED << fnVars, streams >>

\* The generation loop recording the translated name before the artifact is
\* rendered: the row is updated although the rendering backend failed.
generateFinalPdfs_rows_early(jobFiles, jobId, content, outcome) ==
  IF outcome \in {"ok", "renderFails"}
  THEN [ jobFiles EXCEPT ![content.fileId] =
           updateFileWithTranslation(@, translatedNameOf(content.filePath),
             join(translatedDir(jobId), translatedNameOf(content.filePath))) ]
  ELSE jobFiles

\* The file rows after one iteration of the generation loop over the entry
\* `content` of extractedContents, by the iteration's outcome: only when
\* translateHtml, generatePdfFromHtml and the store all succeed is the row
\* updated.
generateFinalPdfs_rows(jobFiles, jobId, content, outcome) ==
  IF outcome = "ok"
  THEN [ jobFiles EXCEPT ![content.fileId] =
           updateFileWithTranslation(@, translatedNameOf(content.filePath),
             join(translatedDir(jobId), translatedNameOf(content.filePath))) ]
  ELSE jobFiles

\* generatePdfFromHtml returning without having written the artifact.
generatePdfFromHtml_unwritten(disk, jobId, content, outcome) == disk

\* generatePdfFromHtml writes the artifact to outputPath when the rendering
\* backend answers ok (translateHtml having returned).
generatePdfFromHtml(disk, jobId, content, outcome) ==
  IF outcome \in {"ok", "storeThrows"}
  THEN disk \cup { join(translatedDir(jobId), translatedNameOf(content.filePath)) }
  ELSE disk

\* One iteration of "for (const { fileId, filePath, htmlContent } of
\* extractedContents)"; whatever is thrown is caught and logged by the loop.
generateFinalPdfs_file(j) ==
  /\ pc[j] = "generate_loop"
  /\ idx[j] <= Len(extractedContents[j])
  /\ \E outcome \in GenerateOutcomes :
       /\ files' = [ files EXCEPT ![j] =
            generateFinalPdfs_rows(@, j, extractedContents[j][idx[j]], outcome) ]
       /\ artifacts' =
            generatePdfFromHtml(artifacts, j, extractedContents[j][idx[j]], outcome)
       /\ generated' = [ generated EXCEPT ![j] = Append(@, outcome) ]
  /\ idx' = [ idx EXCEPT ![j] = @ + 1 ]
  /\ UNCHANGED << jobs, pc, response, nFiles, extractedContents, converted,
                  writes >>
  /\ UNCHANGED << fnVars, streams >>

\* After the loop and the pacing delay:
\* updateJobProgress(COMPLETED, GENERATE, 100).
generateFinalPdfs_complete(j) ==
  /\ pc[j] = "generate_loop"
  /\ idx[j] > Len(extractedContents[j])
  /\ Store(j, generateFinalPdfs_completed(jobs[j]))
  /\ pc' = [ pc EXCEPT ![j] = "done" ]
  /\ UNCHANGED << files, response, nFiles, idx, extractedContents, artifacts,
                  converted, generated >>
  /\ UNCHANGED << fnVars, streams >>

\* getJob or the first updateJobProgress (before the loop) or the last
\* updateJobProgress (after it) throws.
generateFinalPdfs_throws(j) ==
  /\ \/ pc[j] = "generateFinalPdfs"
     \/ pc[j] = "generate_loop" /\ idx[j] > Len(extractedContents[j])
  /\ pc' = [ pc EXCEPT ![j] = "generate_catch" ]
  /\ UNCHANGED << jobs, files, response, nFiles, idx, extractedContents,
                  artifacts, converted, generated, writes >>
  /\ UNCHANGED << fnVars, streams >>

\* The catch block: updateJobProgress(FAILED, TRANSLATE, 75).
generateFinalPdfs_catch(j) ==
  /\ pc[j] = "generate_catch"
  /\ Store(j, generateFinalPdfs_failed(jobs[j]))
  /\ pc' = [ pc EXCEPT ![j] = "done" ]
  /\ UNCHANGED << files, response, nFiles, idx, extractedContents, artifacts,
                  converted, generated >>
  /\ UNCHANGED << fnVars, streams >>

\* updateJobProgress throws inside a catch block: nothing awaits the promise
\* (processJob is not awaited, the other two run in timer callbacks), so the
\* rejection is unhandled and the job row stays as it was.
catch_throws(j) ==
  /\ pc[j] \in {"processJob_catch", "extract_catch", "generate_catch"}
  /\ pc' = [ pc EXCEPT ![j] = "unhandled" ]
  /\ UNCHANGED << jobs, files, response, nFiles, idx, extractedContents,
                  artifacts, converted, generated, writes >>
  /\ UNCHANGED << fnVars, streams >>

----------------------------------------------------------------------------

Next ==
  \E j \in JobIds :
    \/ POST_invalid(j)
    \/ POST_createJob(j)
    \/ POST_file(j)
    \/ POST_accept(j)
    \/ POST_throws(j)
    \/ processJob(j)
    \/ processJob_throws(j)
    \/ processJob_catch(j)
    \/ extractAndTranslate_getJob(j)
    \/ extractAndTranslate_file(j)
    \/ extractAndTranslate_update(j)
    \/ extractAndTranslate_throws(j)
    \/ extractAndTranslate_catch(j)
    \/ generateFinalPdfs_update(j)
    \/ generateFinalPdfs_file(j)
    \/ generateFinalPdfs_complete(j)
    \/ generateFinalPdfs_throws(j)
    \/ generateFinalPdfs_catch(j)
    \/ catch_throws(j)

Spec == Init /\ [][Next]_vars

----------------------------------------------------------------------------
\* JobService called directly: any caller may create a job and may call
\* updateJobProgress with any status, step and percentage on an existing job.

\* The percentages a caller passes.
Percentages == {0, 25, 50, 75, 100}

Service_createJob(j) ==
  /\ j \notin DOMAIN jobs
  /\ \E language \in Languages : jobs' = jobs @@ (j :> createJob(language))
  /\ UNCHANGED << files, pc, response, nFiles, idx, extractedContents,
                  artifacts, converted, generated, writes >>
  /\ UNCHANGED << fnVars, streams >>

Service_updateJobProgress(j) ==
  /\ j \in DOMAIN jobs
  /\ \E status \in JobStatus, step \in ProcessStep, percentage \in Percentages :
       jobs' = [ jobs EXCEPT ![j] = updateJobProgress(@, status, step, percentage) ]
  /\ UNCHANGED << files, pc, response, nFiles, idx, extractedContents,
                  artifacts, converted, generated, writes >>
  /\ UNCHANGED << fnVars, streams >>

ServiceNext ==
  \E j \in JobIds :
    \/ Service_createJob(j)
    \/ Service_updateJobProgress(j)

\* The rows the upload handler and the pipeline leave in the Job table.
PipelineRows ==
  UNION { { createJob(l), POST_progress(createJob(l)),
            processJob_progress(createJob(l)), processJob_failed(createJob(l)),
            extractAndTranslate_progress(createJob(l)),
            extractAndTranslate_failed(createJob(l)),
            generateFinalPdfs_progress(createJob(l)),
            generateFinalPdfs_completed(createJob(l)),
            generateFinalPdfs_failed(createJob(l)) } : l \in Languages \ {""} }

\* The store holds any of the jobs, each with a row the pipeline can leave.
ServiceInit ==
  /\ \E created \in SUBSET JobIds : jobs \in [ created -> PipelineRows ]
  /\ files = [ j \in JobIds |-> << >> ]
  /\ pc = [ j \in JobIds |-> "idle" ]
  /\ response = [ j \in JobIds |-> 0 ]
  /\ nFiles = [ j \in JobIds |-> 0 ]
  /\ idx = [ j \in JobIds |-> 0 ]
  /\ extractedContents = [ j \in JobIds |-> << >> ]
  /\ artifacts = {}
  /\ converted = [ j \in JobIds |-> << >> ]
  /\ generated = [ j \in JobIds |-> << >> ]
  /\ writes = [ j \in JobIds |-> << >> ]
  /\ NoCall
  /\ NoStreams

ServiceSpec == ServiceInit /\ [][ServiceNext]_vars

----------------------------------------------------------------------------
\* Properties

Last(s) == s[Len(s)]

\* The write that follows write i of job j.
Consecutive(j) == { i \in 1..Len(writes[j]) : i < Len(writes[j]) }

Row(status, step, percentage) ==
  [ status |-> status, currentStep |-> step, percentage |-> percentage ]

\* C1: the writes of a job, from createJob on, change its status only
\* QUEUED -> PROCESSING, PROCESSING -> COMPLETED or PROCESSING -> FAILED (a
\* write may keep PROCESSING); nothing is written after a COMPLETED or FAILED
\* write, and the stored row is the last write.
C1_StatusTransitions ==
  \A j \in JobIds :
    /\ \A i \in Consecutive(j) :
         /\ << writes[j][i].status, writes[j][i + 1].status >> \in
              { << "QUEUED", "PROCESSING" >>, << "PROCESSING", "PROCESSING" >>,
                << "PROCESSING", "COMPLETED" >>, << "PROCESSING", "FAILED" >> }
         /\ ~ Terminal(writes[j][i].status)
    /\ j \in DOMAIN jobs => Progress(jobs[j]) = Last(writes[j])

\* One job has ended COMPLETED and the other FAILED after the extraction write.
C1_Witness ==
  \E j, k \in DOMAIN jobs :
    /\ pc[j] = "done" /\ jobs[j].status = "COMPLETED"
    /\ pc[k] = "done" /\ jobs[k].status = "FAILED" /\ Len(writes[k]) >= 4

\* C2 (as claimed): a call of updateJobProgress on a job whose stored status
\* is COMPLETED or FAILED leaves the job row as it is.
C2_TerminalRefused ==
  [][ \A j \in DOMAIN jobs :
        Terminal(jobs[j].status) => jobs'[j] = jobs[j] ]_vars

\* C3 (as claimed): the percentage never decreases from one write of a job
\* to the next, up to and including the terminal write.
C3_PercentageMonotone ==
  \A j \in JobIds : \A i \in Consecutive(j) :
    writes[j][i + 1].percentage >= writes[j][i].percentage

\* C4 (as claimed): a write that sets a job FAILED keeps the step and the
\* percentage recorded by the write before it, and no write follows it.
C4_FailedAtLastProgress ==
  \A j \in JobIds : \A i \in Consecutive(j) :
    /\ writes[j][i + 1].status = "FAILED" =>
         /\ writes[j][i + 1].currentStep = writes[j][i].currentStep
         /\ writes[j][i + 1].percentage = writes[j][i].percentage
    /\ writes[j][i].status # "FAILED"

\* C5 (as claimed): right after createJob the job is QUEUED with a null
\* currentStep and percentage 0.
C5_CreatedWithoutStep ==
  \A j \in DOMAIN jobs :
    Len(writes[j]) = 1 => Progress(jobs[j]) = Row("QUEUED", NULL, 0)

\* C5 (amended): right after createJob the job is QUEUED with currentStep
\* UPLOAD and percentage 0.
C5_CreatedAtUpload ==
  \A j \in DOMAIN jobs :
    /\ writes[j][1] = Row("QUEUED", "UPLOAD", 0)
    /\ Len(writes[j]) = 1 => Progress(jobs[j]) = Row("QUEUED", "UPLOAD", 0)

\* A job that createJob has just stored and POST has not yet updated.
C5_Witness ==
  \E j \in DOMAIN jobs : Len(writes[j]) = 1 /\ pc[j] = "POST_files"

C7_HundredOnlyCompleted ==
  \A j \in DOMAIN jobs : jobs[j].percentage = 100 => jobs[j].status = "COMPLETED"

\* Where the translated artifact of a file row of job j belongs:
\* uploads/<jobId>/translated/translated_<originalName>.
ArtifactPath(j, file) ==
  join(translatedDir(j), "translated_" \o file.originalName)

\* The file rows of job j whose conversion threw.
ConversionFailed(j) == { i \in 1..Len(converted[j]) : converted[j][i] = "throws" }

RenderFailed(j) == { k \in 1..Len(generated[j]) : generated[j][k] = "renderFails" }

\* C9 (as claimed): a job with a file whose rendering failed does not reach
\* COMPLETED.
C9_RenderFailurePropagates ==
  \A j \in DOMAIN jobs : RenderFailed(j) # {} => jobs[j].status # "COMPLETED"

\* C9 (amended): a rendering failure is caught per file.  The file gets no
\* translated name, path or artifact; the failure writes nothing to the job
\* and does not end the generation loop: a job that is FAILED after a
\* rendering failure has had all its extracted contents attempted.
C9_RenderFailureIsolated ==
  \A j \in DOMAIN jobs : \A k \in RenderFailed(j) :
    LET file == files[j][extractedContents[j][k].fileId] IN
    /\ file.translatedName = NULL
    /\ file.translatedPath = NULL
    /\ ArtifactPath(j, file) \notin artifacts
    /\ pc[j] = "generate_loop" => Progress(jobs[j]) = Row("PROCESSING", "GENERATE", 100)
    /\ jobs[j].status = "FAILED" => Len(generated[j]) = Len(extractedContents[j])

\* A job with a file whose rendering failed has ended COMPLETED.
C9_Witness ==
  \E j \in DOMAIN jobs :
    RenderFailed(j) # {} /\ pc[j] = "done" /\ jobs[j].status = "COMPLETED"

\* The file rows of job j that have a translated artifact recorded.
Translated(j) ==
  { i \in 1..Len(files[j]) :
      files[j][i].translatedName # NULL /\ files[j][i].translatedPath # NULL }

\* C10: a job whose pipeline ended without a FAILED write is COMPLETED at
\* GENERATE / 100, whether or not its files have a translated artifact, and
\* the results of the snapshot of any job are exactly its file rows whose
\* translatedName and translatedPath are both set, each listed once.
C10_CompletedAndResults ==
  \A j \in DOMAIN jobs :
    LET results == formatJobResponse(jobs[j], files[j]).results IN
    /\ ( pc[j] = "done" /\ jobs[j].status # "FAILED" )
         => Progress(jobs[j]) = Row("COMPLETED", "GENERATE", 100)
    /\ { results[k].id : k \in 1..Len(results) } = Translated(j)
    /\ Len(results) = Cardinality(Translated(j))

\* A COMPLETED job with one file that has a translated artifact and one that
\* has none.
C10_Witness ==
  \E j \in DOMAIN jobs :
    /\ pc[j] = "done" /\ jobs[j].status = "COMPLETED"
    /\ Translated(j) # {}
    /\ Translated(j) # 1..Len(files[j])

-----------------------------------------------------------------------------
\* PdfService.translateHtml, the batching loop (pdfService.ts 161-183).
\* A chunk is kept as its id and the length of its text, the only thing the
\* loop reads of the text. The extractor emits no chunk with an empty text.

MaxChunks == 3

MAX_BATCH_SIZE == 4000

\* Text lengths on both sides of the budget and of its half.
ChunkLengths == { 1, 2000, 2001, 4000, 4001 }

RECURSIVE SeqsUpTo(_, _)
SeqsUpTo(S, n) ==
  IF n = 0 THEN { << >> }
  ELSE LET shorter == SeqsUpTo(S, n - 1)
       IN  shorter \cup { Append(s, x) : s \in { t \in shorter : Len(t) = n - 1 },
                                         x \in S }

\* The chunk sequences handed to the loop: ids in input order.
ChunkSeqs ==
  { [ i \in 1..Len(ls) |-> [ id |-> i, length |-> ls[i] ] ] :
      ls \in SeqsUpTo(ChunkLengths, MaxChunks) }

\* The loop's test without the budget: every chunk closes the open batch.
shouldFlush_always(currentBatchSize, chunkLength, currentBatchLength) ==
  currentBatchLength > 0

\* The loop's test with the chunk's own length left out: a mistaken variant.
shouldFlush_ignoresChunk(currentBatchSize, chunkLength, currentBatchLength) ==
  currentBatchSize > MAX_BATCH_SIZE /\ currentBatchLength > 0

\* The loop's test without "currentBatch.length > 0": a mistaken variant.
shouldFlush_evenEmpty(currentBatchSize, chunkLength, currentBatchLength) ==
  currentBatchSize + chunkLength > MAX_BATCH_SIZE

\* "currentBatchSize + chunk.text.length > MAX_BATCH_SIZE &&
\*  currentBatch.length > 0"
shouldFlush(currentBatchSize, chunkLength, currentBatchLength) ==
  currentBatchSize + chunkLength > MAX_BATCH_SIZE /\ currentBatchLength > 0

BatchInit ==
  /\ call \in { [ fn |-> "batching", textChunks |-> cs ] : cs \in ChunkSeqs }
  /\ frame = [ at |-> "for", i |-> 1, batches |-> << >>,
               currentBatch |-> << >>, currentBatchSize |-> 0 ]
  /\ result = [ done |-> FALSE ]
  /\ NoPipeline
  /\ NoStreams

\* One iteration of "for (const chunk of textChunks)".
Batch_chunk ==
  /\ call.fn = "batching"
  /\ frame.at = "for"
  /\ frame.i <= Len(call.textChunks)
  /\ LET chunk == call.textChunks[frame.i]
         flush == shouldFlush(frame.currentBatchSize, chunk.length,
                              Len(frame.currentBatch))
     IN  frame' = [ frame EXCEPT
           !.i = @ + 1,
           !.batches = IF flush THEN Append(@, frame.currentBatch) ELSE @,
           !.currentBatch = Append(IF flush THEN << >> ELSE @, chunk),
           !.currentBatchSize = (IF flush THEN 0 ELSE @) + chunk.length ]
  /\ UNCHANGED << call, result, pipeVars, streams >>

\* After the loop: "if (currentBatch.length > 0) batches.push(currentBatch)".
Batch_last ==
  /\ call.fn = "batching"
  /\ frame.at = "for"
  /\ frame.i > Len(call.textChunks)
  /\ frame' = [ frame EXCEPT
       !.at = "end",
       !.batches = IF Len(frame.currentBatch) > 0
                   THEN Append(@, frame.currentBatch) ELSE @ ]
  /\ result' = [ done |-> TRUE, batches |-> frame'.batches ]
  /\ UNCHANGED << call, pipeVars, streams >>

BatchNext == Batch_chunk \/ Batch_last

BatchSpec == BatchInit /\ [][BatchNext]_vars

RECURSIVE Concat(_)
Concat(ss) == IF ss = << >> THEN << >> ELSE Head(ss) \o Concat(Tail(ss))

RECURSIVE TotalLength(_)
TotalLength(batch) ==
  IF batch = << >> THEN 0 ELSE Head(batch).length + TotalLength(Tail(batch))

Batched == call.fn = "batching" /\ result.done

\* C11: once the loop has returned, the batches concatenated in batch order
\* are the input chunk sequence (so each chunk is in exactly one batch, in the
\* input order), and no batch is empty.
C11_BatchesPartitionInput ==
  Batched =>
    /\ Concat(result.batches) = call.textChunks
    /\ \A b \in 1..Len(result.batches) : Len(result.batches[b]) > 0

\* An input of several chunks has been cut into several batches, one of them
\* holding more than one chunk.
C11_Witness ==
  /\ Batched
  /\ Len(result.batches) >= 2
  /\ \E b \in 1..Len(result.batches) : Len(result.batches[b]) >= 2

\* C12: once the loop has returned, a batch is longer than the budget only if
\* it is one chunk that is itself longer than the budget; a batch of two or
\* more chunks is within the budget; a chunk longer than the budget is alone.
C12_BudgetRespected ==
  Batched =>
    \A b \in 1..Len(result.batches) :
      LET batch == result.batches[b]
      IN  /\ TotalLength(batch) > MAX_BATCH_SIZE =>
               Len(batch) = 1 /\ batch[1].length > MAX_BATCH_SIZE
          /\ Len(batch) >= 2 => TotalLength(batch) <= MAX_BATCH_SIZE
          /\ \A k \in 1..Len(batch) :
               batch[k].length > MAX_BATCH_SIZE => Len(batch) = 1

\* A chunk longer than the budget has been given a batch of its own next to a
\* batch of two chunks that fills the budget exactly.
C12_Witness ==
  /\ Batched
  /\ \E b \in 1..Len(result.batches) :
       /\ Len(result.batches[b]) = 1
       /\ result.batches[b][1].length > MAX_BATCH_SIZE
  /\ \E b \in 1..Len(result.batches) :
       /\ Len(result.batches[b]) >= 2
       /\ TotalLength(result.batches[b]) = MAX_BATCH_SIZE

-----------------------------------------------------------------------------
\* PdfService.replaceTextWhilePreservingTags (pdfService.ts 319-508) and the
\* statement of the apply loop that stores its result, "$element.html(...)".
\*
\* A text is the sequence of its characters. The inner markup of a text
\* container is the sequence of its child nodes in document order: a bare text
\* node is [tag |-> "", text |-> ...], and <span>text</span> is
\* [tag |-> "span", text |-> ...], with an empty text for a span that has no
\* text node. Two bare text nodes are never neighbours, as in parsed markup.
\* The characters used need no escaping, so markup and its parse are the same
\* sequence.

Min(a, b) == IF a <= b THEN a ELSE b

RECURSIVE TrimStart(_)
TrimStart(s) == IF s # << >> /\ Head(s) = " " THEN TrimStart(Tail(s)) ELSE s

RECURSIVE TrimEnd(_)
TrimEnd(s) ==
  IF s # << >> /\ s[Len(s)] = " " THEN TrimEnd(SubSeq(s, 1, Len(s) - 1)) ELSE s

\* String.prototype.trim
trim(s) == TrimEnd(TrimStart(s))

\* The length of the first word of a text that starts with one.
WordEnd(s) ==
  IF \E i \in 1..Len(s) : s[i] = " "
  THEN (CHOOSE i \in 1..Len(s) : s[i] = " " /\ \A k \in 1..(i - 1) : s[k] # " ") - 1
  ELSE Len(s)

\* s.split(/\s+/).filter((w) => w.length > 0)
RECURSIVE split(_)
split(s) ==
  LET t == TrimStart(s)
  IN  IF t = << >> THEN << >>
      ELSE << SubSeq(t, 1, WordEnd(t)) >> \o split(SubSeq(t, WordEnd(t) + 1, Len(t)))

\* s.replace(/pattern/g, "")
RECURSIVE replaceAll(_, _)
replaceAll(s, pattern) ==
  IF Len(s) < Len(pattern) THEN s
  ELSE IF SubSeq(s, 1, Len(pattern)) = pattern
       THEN replaceAll(SubSeq(s, Len(pattern) + 1, Len(s)), pattern)
       ELSE << Head(s) >> \o replaceAll(Tail(s), pattern)

\* s.substr(start, length), start counted from 0
substr(s, start, length) == SubSeq(s, start + 1, Min(start + length, Len(s)))

\* s.substring(start, end), both counted from 0
substring(s, start, end) == SubSeq(s, start + 1, end)

\* s.indexOf(word, fromIndex) when the word occurs there; Len(s) stands for -1,
\* which the loop never gets: each word is a word of s past fromIndex.
indexOf(s, word, fromIndex) ==
  IF \E p \in fromIndex..(Len(s) - Len(word)) :
       SubSeq(s, p + 1, p + Len(word)) = word
  THEN CHOOSE p \in fromIndex..(Len(s) - Len(word)) :
         /\ SubSeq(s, p + 1, p + Len(word)) = word
         /\ \A q \in fromIndex..(p - 1) : SubSeq(s, q + 1, q + Len(word)) # word
  ELSE Len(s)

t_undefined == << "u", "n", "d", "e", "f", "i", "n", "e", "d" >>

t_null == << "n", "u", "l", "l" >>

t_NaN == << "N", "a", "N" >>

\* $(element).text(): the text of all text nodes, in document order.
RECURSIVE text(_)
text(html) == IF html = << >> THEN << >> ELSE Head(html).text \o text(Tail(html))

\* collectNodes keeps a text node when "text.trim()" is not empty.
isTextNode(node) == trim(node.text) # << >>

\* The positions of the text runs of a markup.
textNodes(html) == { k \in 1..Len(html) : isTextNode(html[k]) }

\* "Math.ceil(translatedLength * (originalNodeLength / originalLength))" in
\* double arithmetic. For lengths up to 26 the product of the doubles lies
\* above the exact quotient, and the ceiling one higher, for these triples
\* (translatedLength, originalNodeLength, originalLength); 25 * (7 / 25), for
\* one, is 7.000000000000001.
DoubleAbove ==
  { <<15, 25, 3>>, <<25, 11, 5>>, <<25, 22, 5>>, <<21, 9, 7>>, <<21, 18,
    7>>, <<25, 22, 10>>, <<11, 25, 11>>, <<22, 25, 11>>, <<21, 18, 14>>,
    <<19, 21, 19>>, <<21, 23, 21>>, <<22, 25, 22>>, <<25, 7, 25>>, <<25,
    14, 25>> }

translatedNodeLength(translatedLength, originalNodeLength, originalLength) ==
  ((translatedLength * originalNodeLength + originalLength - 1) \div originalLength)
  + (IF << translatedLength, originalNodeLength, originalLength >> \in DoubleAbove
     THEN 1 ELSE 0)

\* The loop of the word-aligned branch over one text run: each word of the
\* run is replaced by the translated word of the same rank, after the
\* characters that stood between the previous word and it.
RECURSIVE replaceWords(_, _, _, _, _, _)
replaceWords(nodeText, nodeWords, nodeTranslatedWords, i, lastIndex, nodeTranslatedText) ==
  IF i > Min(Len(nodeWords), Len(nodeTranslatedWords))
  THEN nodeTranslatedText \o substring(nodeText, lastIndex, Len(nodeText))
  ELSE LET word == nodeWords[i]
           translatedWord == nodeTranslatedWords[i]
           wordStart == indexOf(nodeText, word, lastIndex)
       IN  IF wordStart < Len(nodeText)
           THEN replaceWords(nodeText, nodeWords, nodeTranslatedWords, i + 1,
                  wordStart + Len(word),
                  nodeTranslatedText \o substring(nodeText, lastIndex, wordStart)
                                     \o translatedWord)
           ELSE replaceWords(nodeText, nodeWords, nodeTranslatedWords, i + 1,
                  lastIndex, nodeTranslatedText)

\* The word-aligned branch, "textNodes.forEach" from child k on with wordIndex
\* translated words already used.
RECURSIVE wordAligned(_, _, _, _)
wordAligned(html, translatedWords, k, wordIndex) ==
  IF k > Len(html) THEN << >>
  ELSE LET nodeText == html[k].text
           nodeWords == split(nodeText)
           wordsToTake == Min(Len(nodeWords), Len(translatedWords) - wordIndex)
           nodeTranslatedText ==
             replaceWords(nodeText, nodeWords,
               SubSeq(translatedWords, wordIndex + 1, wordIndex + wordsToTake),
               1, 0, << >>)
           safeNodeText ==
             IF nodeTranslatedText = << >> THEN nodeText ELSE nodeTranslatedText
       IN  IF ~isTextNode(html[k]) \/ wordsToTake = 0
           THEN << html[k] >> \o wordAligned(html, translatedWords, k + 1, wordIndex)
           ELSE << [ html[k] EXCEPT !.text = safeNodeText ] >>
                \o wordAligned(html, translatedWords, k + 1, wordIndex + wordsToTake)

\* The text one run receives in the proportional branch.
proportionalText(originalNodeText, originalLength, translatedText, translatedIndex) ==
  LET length == translatedNodeLength(Len(translatedText), Len(originalNodeText),
                                     originalLength)
      slice == IF Len(translatedText) > 0
               THEN substr(translatedText, translatedIndex, length)
               ELSE originalNodeText
      led == IF Head(originalNodeText) = " " /\ (slice = << >> \/ Head(slice) # " ")
             THEN << " " >> \o slice ELSE slice
  IN  IF /\ originalNodeText[Len(originalNodeText)] = " "
         /\ (led = << >> \/ led[Len(led)] # " ")
      THEN led \o << " " >> ELSE led

\* The proportional branch, "textNodesWithContent.forEach" from child k on
\* with translatedIndex characters of the translation already handed out.
RECURSIVE proportional(_, _, _, _, _)
proportional(html, originalLength, translatedText, k, translatedIndex) ==
  IF k > Len(html) THEN << >>
  ELSE IF ~isTextNode(html[k])
       THEN << html[k] >>
            \o proportional(html, originalLength, translatedText, k + 1, translatedIndex)
       ELSE << [ html[k] EXCEPT !.text =
                   proportionalText(html[k].text, originalLength, translatedText,
                                    translatedIndex) ] >>
            \o proportional(html, originalLength, translatedText, k + 1,
                 translatedIndex
                 + translatedNodeLength(Len(translatedText), Len(html[k].text),
                                        originalLength))

\* The closing replacements on the serialised result: "undefined", then
\* "null", then "NaN". No tag of the markup holds one of them, and none can
\* straddle a tag, so they act on each text by itself.
sanitize(html) ==
  [ k \in 1..Len(html) |->
      [ html[k] EXCEPT !.text =
          replaceAll(replaceAll(replaceAll(@, t_undefined), t_null), t_NaN) ] ]

\* Which way replaceTextWhilePreservingTags takes for its arguments.
branch(html, originalText, translatedText) ==
  LET translated == replaceAll(translatedText, t_undefined)
  IN  IF originalText = translatedText THEN "same"
      ELSE IF Cardinality(textNodes(html)) = 1 THEN "single"
      ELSE IF Len(split(originalText)) # Len(split(translated))
           THEN "proportional"
           ELSE "words"

\* The function without its first line: a mistaken variant.
replaceTextWhilePreservingTags_noShortcut(html, originalText, translatedText) ==
  LET translated == replaceAll(translatedText, t_undefined)
  IN  IF Cardinality(textNodes(html)) = 1
      THEN [ k \in 1..Len(html) |->
               IF isTextNode(html[k]) THEN [ html[k] EXCEPT !.text = translated ]
               ELSE html[k] ]
      ELSE IF Len(split(originalText)) # Len(split(translated))
           THEN sanitize(proportional(html, Len(originalText), translated, 1, 0))
           ELSE sanitize(wordAligned(html, split(translated), 1, 0))

replaceTextWhilePreservingTags(html, originalText, translatedText) ==
  LET translated == replaceAll(translatedText, t_undefined)
  IN  IF originalText = translatedText THEN html
      ELSE IF Cardinality(textNodes(html)) = 1
           THEN [ k \in 1..Len(html) |->
                    IF isTextNode(html[k]) THEN [ html[k] EXCEPT !.text = translated ]
                    ELSE html[k] ]
      ELSE IF Len(split(originalText)) # Len(split(translated))
           THEN sanitize(proportional(html, Len(originalText), translated, 1, 0))
           ELSE sanitize(wordAligned(html, split(translated), 1, 0))

\* The texts of the documents and of the backend's answers looked at.

t_Hello ==
  << "H", "e", "l", "l", "o" >>

t_Hel ==
  << "H", "e", "l" >>

t_lo_world ==
  << "l", "o", " ", "w", "o", "r", "l", "d" >>

t_sp_world ==
  << " ", "w", "o", "r", "l", "d" >>

t_sp_Hello_sp ==
  << " ", "H", "e", "l", "l", "o", " " >>

t_Hello_sp ==
  << "H", "e", "l", "l", "o", " " >>

t_world ==
  << "w", "o", "r", "l", "d" >>

t_Hello_world ==
  << "H", "e", "l", "l", "o", " ", "w", "o", "r", "l", "d" >>

t_Bonjour_monde ==
  << "B", "o", "n", "j", "o", "u", "r", " ", "m", "o", "n", "d", "e" >>

t_Bonjour_le_monde ==
  << "B", "o", "n", "j", "o", "u", "r", " ", "l", "e", " ", "m", "o", "n",
    "d", "e" >>

t_nulla_osta ==
  << "n", "u", "l", "l", "a", " ", "o", "s", "t", "a" >>

t_abcdefghij ==
  << "a", "b", "c", "d", "e", "f", "g", "h", "i", "j" >>

t_klmnopqrstuvwxyz ==
  << "k", "l", "m", "n", "o", "p", "q", "r", "s", "t", "u", "v", "w", "x",
    "y", "z" >>

t_abcdefg ==
  << "a", "b", "c", "d", "e", "f", "g" >>

t_hijklmnopqrstuvwxy ==
  << "h", "i", "j", "k", "l", "m", "n", "o", "p", "q", "r", "s", "t", "u",
    "v", "w", "x", "y" >>

t_le_renard_brun_saute ==
  << "l", "e", " ", "r", "e", "n", "a", "r", "d", " ", "b", "r", "u", "n",
    " ", "s", "a", "u", "t", "e" >>

t_le_renard_brun_saute_loin ==
  << "l", "e", " ", "r", "e", "n", "a", "r", "d", " ", "b", "r", "u", "n",
    " ", "s", "a", "u", "t", "e", " ", "l", "o", "i", "n" >>

\* Inner markups of text containers as pdf2htmlEX writes them: text cut into
\* runs by spans, at a word boundary or inside a word, or with a text of
\* whitespace only between two spans.
Markups ==
  { << [ tag |-> "", text |-> t_Hello ], [ tag |-> "span", text |-> t_sp_world ] >>,
    << [ tag |-> "", text |-> t_Hel ], [ tag |-> "span", text |-> << >> ],
       [ tag |-> "", text |-> t_lo_world ] >>,
    << [ tag |-> "span", text |-> t_sp_Hello_sp ] >>,
    << [ tag |-> "", text |-> t_Hello_sp ], [ tag |-> "span", text |-> t_world ] >>,
    << [ tag |-> "", text |-> t_abcdefghij ],
       [ tag |-> "span", text |-> t_klmnopqrstuvwxyz ] >>,
    << [ tag |-> "", text |-> t_abcdefg ],
       [ tag |-> "span", text |-> t_hijklmnopqrstuvwxy ] >>,
    << [ tag |-> "span", text |-> t_Hello ], [ tag |-> "", text |-> << " " >> ],
       [ tag |-> "span", text |-> t_world ] >> }

\* The "text" of a translated item, when it is a string.
Translations ==
  { t_Hello, t_Hello_world, t_Bonjour_monde, t_Bonjour_le_monde, t_nulla_osta,
    t_le_renard_brun_saute, t_le_renard_brun_saute_loin, << >> }

MaxApplications == 2

\* A node as the extraction loop stored it, original.html with
\* original.parentText, and the text of a translated item for it, which may
\* be the original text itself.
ReinsertInit ==
  /\ call \in UNION { { [ fn |-> "replaceTextWhilePreservingTags",
                         html |-> m,
                         originalText |-> trim(text(m)),
                         translatedText |-> t ] :
                       t \in Translations \cup { trim(text(m)) } } :
                     m \in Markups }
  /\ frame = [ at |-> "apply", element |-> call.html, appliedTranslations |-> 0 ]
  /\ result = [ done |-> FALSE ]
  /\ NoPipeline
  /\ NoStreams

\* The body of the apply loop for one translated item: "rebuiltHtml =
\* this.replaceTextWhilePreservingTags(originalHtml, original.parentText,
\* text); $element.html(rebuiltHtml); appliedTranslations++". The item may
\* come again, from the same answer.
Reinsert ==
  /\ call.fn = "replaceTextWhilePreservingTags"
  /\ frame.appliedTranslations < MaxApplications
  /\ LET rebuiltHtml == replaceTextWhilePreservingTags(call.html,
                          call.originalText, call.translatedText)
     IN  /\ frame' = [ frame EXCEPT !.element = rebuiltHtml,
                                    !.appliedTranslations = @ + 1 ]
         /\ result' = [ done |-> TRUE, rebuiltHtml |-> rebuiltHtml,
                        before |-> frame.element,
                        branch |-> branch(call.html, call.originalText,
                                          call.translatedText) ]
  /\ UNCHANGED << call, pipeVars, streams >>

ReinsertNext == Reinsert

ReinsertSpec == ReinsertInit /\ [][ReinsertNext]_vars

Reinserted == call.fn = "replaceTextWhilePreservingTags" /\ result.done

\* C15: when the translated text equals the original text, the node's inner
\* markup after the reinsertion is its inner markup before it, at the first
\* application and at every later one.
C15_EchoIsNoOp ==
  (Reinserted /\ call.translatedText = call.originalText) =>
    /\ frame.element = result.before
    /\ frame.element = call.html

\* The original text has been reinserted twice into a node of several runs.
C15_Witness ==
  /\ Reinserted
  /\ call.translatedText = call.originalText
  /\ frame.appliedTranslations >= 2
  /\ Cardinality(textNodes(call.html)) >= 2

\* The positions of the text runs of a markup, in document order.
RECURSIVE runs(_, _)
runs(html, k) ==
  IF k > Len(html) THEN << >>
  ELSE (IF isTextNode(html[k]) THEN << k >> ELSE << >>) \o runs(html, k + 1)

\* A text with each of its words shortened to one letter: what is left is the
\* whitespace before, between and after the words.
RECURSIVE spacing(_)
spacing(s) ==
  IF s = << >> THEN << >>
  ELSE IF Head(s) = " " THEN << " " >> \o spacing(Tail(s))
  ELSE << "w" >> \o spacing(SubSeq(s, WordEnd(s) + 1, Len(s)))

\* The number of words in the first n runs of a markup.
RECURSIVE wordsIn(_, _, _)
wordsIn(html, rs, n) ==
  IF n = 0 THEN 0
  ELSE Len(split(html[rs[n]].text)) + wordsIn(html, rs, n - 1)

\* The words of all runs of a markup, in document order.
RECURSIVE allWords(_, _, _)
allWords(html, rs, n) ==
  IF n = 0 THEN << >>
  ELSE allWords(html, rs, n - 1) \o split(html[rs[n]].text)

SameTokenCount ==
  /\ Reinserted
  /\ Len(split(call.originalText)) = Len(split(call.translatedText))
  /\ Cardinality(textNodes(call.html)) > 1

\* C16: when the original and the translated text have the same number of
\* words and the node has more than one text run, each run holds afterwards as
\* many translated words as it had original words, taken in order from where
\* the run before stopped; all runs together hold the translated words, each
\* once and in order; and the whitespace of each run is as it was.
C16_WordAligned ==
  SameTokenCount =>
    LET rs == runs(call.html, 1)
        translatedWords == split(call.translatedText)
    IN  /\ \A n \in 1..Len(rs) :
             LET used == wordsIn(call.html, rs, n - 1)
                 had == Len(split(call.html[rs[n]].text))
                 now == split(frame.element[rs[n]].text)
             IN  /\ Len(now) = had
                 /\ used + had <= Len(translatedWords)
                 /\ now = SubSeq(translatedWords, used + 1, used + had)
                 /\ spacing(frame.element[rs[n]].text) = spacing(call.html[rs[n]].text)
        /\ allWords(frame.element, rs, Len(rs)) = translatedWords

\* The slice run n receives by the stated rule: it begins where the slice of
\* the run before ended and is ceil(len(translatedText) * len(run)
\* / len(originalText)) long, cut at the end of translatedText.
RECURSIVE sliceEnd(_, _, _, _, _)
sliceEnd(html, rs, n, originalText, translatedText) ==
  IF n = 0 THEN 0
  ELSE Min(Len(translatedText),
           sliceEnd(html, rs, n - 1, originalText, translatedText)
           + ((Len(translatedText) * Len(html[rs[n]].text) + Len(originalText) - 1)
              \div Len(originalText)))

TokenCountMismatch ==
  /\ Reinserted
  /\ Len(split(call.originalText)) # Len(split(call.translatedText))
  /\ Cardinality(textNodes(call.html)) > 1

\* C17: when the numbers of words differ, text run n holds afterwards the
\* slice of translatedText that begins where the slice of run n-1 ended and
\* whose length is ceil(len(translatedText) * len(run n) / len(originalText)),
\* cut off at the end of translatedText.
C17_ProportionalSlices ==
  TokenCountMismatch =>
    LET rs == runs(call.html, 1)
    IN  \A n \in 1..Len(rs) :
          frame.element[rs[n]].text =
            SubSeq(call.translatedText,
                   sliceEnd(call.html, rs, n - 1, call.originalText,
                            call.translatedText) + 1,
                   sliceEnd(call.html, rs, n, call.originalText,
                            call.translatedText))

-----------------------------------------------------------------------------
\* PdfService.translateHtml, the extraction (pdfService.ts 117-155).
\* The document is the sequence of its elements in document order; an element
\* is known by its position. For each element: the id of the container it lies
\* under, its class, the data-page-no of its page and its inner markup.

MaxElements == 3

t_sp == << " " >>

Elements ==
  { [ under |-> "page-container", class |-> "t", page |-> "1",
      html |-> << [ tag |-> "", text |-> t_Hello ],
                  [ tag |-> "span", text |-> t_sp_world ] >> ],
    [ under |-> "page-container", class |-> "t", page |-> "2",
      html |-> << [ tag |-> "span", text |-> t_sp_Hello_sp ] >> ],
    [ under |-> "page-container", class |-> "t", page |-> "1",
      html |-> << [ tag |-> "span", text |-> t_sp ] >> ],
    [ under |-> "page-container", class |-> "t", page |-> "2",
      html |-> << >> ],
    [ under |-> "page-container", class |-> "bi", page |-> "1",
      html |-> << >> ],
    [ under |-> "sidebar", class |-> "t", page |-> NULL,
      html |-> << [ tag |-> "", text |-> t_Hello ] >> ] }

Documents == SeqsUpTo(Elements, MaxElements)

\* $("#page-container .t")
selected(element) == element.under = "page-container" /\ element.class = "t"

\* $("#page-container .t").each(...): the selected elements in document order.
RECURSIVE select(_, _)
select(document, p) ==
  IF p > Len(document) THEN << >>
  ELSE (IF selected(document[p]) THEN << p >> ELSE << >>) \o select(document, p + 1)

\* The test without the trim: a mistaken variant.
isEmpty_untrimmed(html) == text(html) = << >>

\* "const fullText = $parent.text().trim(); if (!fullText) return;"
isEmpty(html) == trim(text(html)) = << >>

\* `elem_${parentIndex}`
elementId(parentIndex) == "elem_" \o ToString(parentIndex)

ExtractInit ==
  /\ call \in { [ fn |-> "extraction", document |-> d ] : d \in Documents }
  /\ frame = [ at |-> "each", calls |-> 1 ]
  /\ result = [ done |-> FALSE ]
  /\ NoPipeline
  /\ NoStreams

\* The first loop fills parentElements; contentMap and textChunks are created.
Extract_each ==
  /\ call.fn = "extraction"
  /\ frame.at = "each"
  /\ frame' = [ at |-> "forEach", calls |-> frame.calls,
                parentElements |-> select(call.document, 1),
                parentIndex |-> 0,
                contentMap |-> << >>,
                textChunks |-> << >> ]
  /\ UNCHANGED << call, result, pipeVars, streams >>

\* One turn of "parentElements.forEach((parentElement, parentIndex) => ...)".
Extract_parent ==
  /\ call.fn = "extraction"
  /\ frame.at = "forEach"
  /\ frame.parentIndex < Len(frame.parentElements)
  /\ LET parentElement == frame.parentElements[frame.parentIndex + 1]
         parent == call.document[parentElement]
         fullText == trim(text(parent.html))
         id == elementId(frame.parentIndex)
     IN  frame' =
           IF isEmpty(parent.html)
           THEN [ frame EXCEPT !.parentIndex = @ + 1 ]
           ELSE [ frame EXCEPT
                  !.parentIndex = @ + 1,
                  !.contentMap =
                    (id :> [ element |-> parentElement, html |-> parent.html,
                             parentText |-> fullText ]) @@ @,
                  !.textChunks =
                    Append(@, [ id |-> id, text |-> fullText,
                                context |-> parent.page ]) ]
  /\ UNCHANGED << call, result, pipeVars, streams >>

\* The loop is over: textChunks and contentMap are what the rest of
\* translateHtml works on.
Extract_end ==
  /\ call.fn = "extraction"
  /\ frame.at = "forEach"
  /\ frame.parentIndex = Len(frame.parentElements)
  /\ frame' = [ frame EXCEPT !.at = "end" ]
  /\ result' = [ done |-> TRUE, textChunks |-> frame.textChunks,
                 contentMap |-> frame.contentMap,
                 earlier |-> IF result.done THEN << result.textChunks >> ELSE << >> ]
  /\ UNCHANGED << call, pipeVars, streams >>

\* A second call that keeps the first call's contentMap and textChunks, as
\* fields of the service would be kept: a mistaken variant.
Extract_again_keeps ==
  /\ call.fn = "extraction"
  /\ frame.at = "end"
  /\ frame.calls = 1
  /\ frame' = [ frame EXCEPT !.at = "forEach", !.calls = 2, !.parentIndex = 0 ]
  /\ UNCHANGED << call, result, pipeVars, streams >>

\* translateHtml is called again on the same markup: parentElements,
\* contentMap and textChunks are locals of the call and start anew.
Extract_again ==
  /\ call.fn = "extraction"
  /\ frame.at = "end"
  /\ frame.calls = 1
  /\ frame' = [ at |-> "each", calls |-> 2 ]
  /\ UNCHANGED << call, result, pipeVars, streams >>

ExtractNext ==
  \/ Extract_each
  \/ Extract_parent
  \/ Extract_end
  \/ Extract_again

ExtractSpec == ExtractInit /\ [][ExtractNext]_vars

Extracted == call.fn = "extraction" /\ result.done

\* The text containers under the page container whose trimmed text is not
\* empty, in document order.
RECURSIVE textContainers(_, _)
textContainers(document, p) ==
  IF p > Len(document) THEN << >>
  ELSE (IF /\ document[p].under = "page-container"
           /\ document[p].class = "t"
           /\ trim(text(document[p].html)) # << >>
        THEN << p >> ELSE << >>)
       \o textContainers(document, p + 1)

\* C18: the chunks emitted are, in order, one for each text container under
\* the page container whose trimmed text is not empty, each with that text;
\* a container with no text or only whitespace has no chunk.
C18_OneChunkPerContainer ==
  Extracted =>
    LET containers == textContainers(call.document, 1)
    IN  /\ Len(result.textChunks) = Len(containers)
        /\ \A i \in 1..Len(containers) :
             /\ result.textChunks[i].id \in DOMAIN result.contentMap
             /\ result.contentMap[result.textChunks[i].id].element = containers[i]
             /\ result.textChunks[i].text = trim(text(call.document[containers[i]].html))

\* A document with a whitespace-only container between two containers with
\* text has been extracted.
C18_Witness ==
  /\ Extracted
  /\ Len(call.document) = 3
  /\ Len(result.textChunks) = 2
  /\ selected(call.document[2])
  /\ text(call.document[2].html) = t_sp

\* C19: the ids of the emitted chunks are pairwise distinct; the side-table
\* has an entry for each emitted id and for no other id, and no two entries
\* hold the same node; a second extraction of the same document gives the
\* chunk sequence of the first.
C19_IdsAndSideTable ==
  Extracted =>
    /\ \A i, k \in 1..Len(result.textChunks) :
         result.textChunks[i].id = result.textChunks[k].id => i = k
    /\ DOMAIN result.contentMap =
         { result.textChunks[i].id : i \in 1..Len(result.textChunks) }
    /\ \A a, b \in DOMAIN result.contentMap :
         result.contentMap[a].element = result.contentMap[b].element => a = b
    /\ \A e \in 1..Len(result.earlier) : result.textChunks = result.earlier[e]

\* The second extraction of a document with several text containers is over.
C19_Witness ==
  /\ Extracted
  /\ Len(result.earlier) = 1
  /\ Len(result.textChunks) >= 2

-----------------------------------------------------------------------------
\* PdfService.translateHtml from the batches on (pdfService.ts 186-313): the
\* requests, one per batch and all under way together, the wait for all of
\* them, the apply loop, and the catch around the whole function.
\*
\* Texts are not to scale here: a batch boundary stands for texts long enough
\* to fill the budget, while each node carries a short markup so that its
\* reinsertion is computed by replaceTextWhilePreservingTags.

\* The markup of the text container with index k.
NodeMarkups ==
  << << [ tag |-> "", text |-> t_Hello ], [ tag |-> "span", text |-> t_sp_world ] >>,
     << [ tag |-> "", text |-> t_Hel ], [ tag |-> "span", text |-> << >> ],
        [ tag |-> "", text |-> t_lo_world ] >>,
     << [ tag |-> "span", text |-> t_sp_Hello_sp ] >> >>

NodeMarkup(k) == NodeMarkups[(k % Len(NodeMarkups)) + 1]

\* contentMap after the extraction of n text containers with text.
ContentMapOf(n) ==
  [ id \in { elementId(k) : k \in 0..(n - 1) } |->
      LET k == CHOOSE k \in 0..(n - 1) : elementId(k) = id
      IN  [ element |-> k + 1, html |-> NodeMarkup(k),
            parentText |-> trim(text(NodeMarkup(k))) ] ]

\* The ways the batching loop can cut a chunk sequence, depending on the
\* lengths of the texts: every cut into consecutive non-empty batches.
RECURSIVE Batchings(_)
Batchings(chunks) ==
  IF chunks = << >> THEN { << >> }
  ELSE UNION { { << SubSeq(chunks, 1, k) >> \o rest :
                 rest \in Batchings(SubSeq(chunks, k + 1, Len(chunks))) } :
               k \in 1..Len(chunks) }

\* What the backend may do with a request: answer with a JSON array holding
\* one well-formed item per chunk; reject or fail in transport; answer with no
\* content; answer with text that is not JSON; answer with JSON that is not an
\* array; answer with an array whose first item has no string as text; answer
\* with an array whose items carry ids the document does not have; answer
\* with an array that has no item for the first chunk of the batch.
BatchOutcomes ==
  { "translated", "transportError", "emptyResponse", "unparsable",
    "notIterable", "textNotString", "unknownIds", "leftOut" }

\* The failures processBatch names: each ends in "return []".
FailedRequest == { "transportError", "emptyResponse", "unparsable" }

\* The items of the array the backend answers with.
translatedItems(batch, outcome) ==
  LET items == [ i \in 1..Len(batch) |->
                   [ id |-> IF outcome = "unknownIds" THEN "elem_x" ELSE batch[i].id,
                     isString |-> ~(outcome = "textNotString" /\ i = 1),
                     text |-> IF outcome = "textNotString" /\ i = 1
                              THEN << >> ELSE t_Bonjour_monde ] ]
  IN  IF outcome = "leftOut" THEN Tail(items) ELSE items

\* processBatch without its outer try/catch: a mistaken variant.
processBatch_uncaught(batch, outcome) ==
  IF batch = << >> THEN [ state |-> "fulfilled", iterable |-> TRUE, value |-> << >> ]
  ELSE IF outcome = "transportError" THEN [ state |-> "rejected" ]
  ELSE IF outcome \in { "emptyResponse", "unparsable" }
       THEN [ state |-> "fulfilled", iterable |-> TRUE, value |-> << >> ]
  ELSE IF outcome = "notIterable"
       THEN [ state |-> "fulfilled", iterable |-> FALSE, value |-> << >> ]
  ELSE [ state |-> "fulfilled", iterable |-> TRUE,
         value |-> translatedItems(batch, outcome) ]

\* The promise processBatch returns, once settled: it is always fulfilled,
\* with [] after a failure and with whatever JSON.parse gave otherwise.
processBatch(batch, outcome) ==
  IF batch = << >> THEN [ state |-> "fulfilled", iterable |-> TRUE, value |-> << >> ]
  ELSE IF outcome \in FailedRequest
       THEN [ state |-> "fulfilled", iterable |-> TRUE, value |-> << >> ]
  ELSE IF outcome = "notIterable"
       THEN [ state |-> "fulfilled", iterable |-> FALSE, value |-> << >> ]
  ELSE [ state |-> "fulfilled", iterable |-> TRUE,
         value |-> translatedItems(batch, outcome) ]

DispatchInit ==
  /\ call \in UNION { { [ fn |-> "translateHtml",
                         contentMap |-> ContentMapOf(n),
                         batches |-> bs ] :
                       bs \in Batchings([ k \in 1..n |-> [ id |-> elementId(k - 1) ] ]) } :
                     n \in 0..MaxChunks }
  /\ frame = [ at |-> "map" ]
  /\ result = [ done |-> FALSE ]
  /\ NoPipeline
  /\ NoStreams

\* "batches.map((batch, index) => processBatch(...))": every request is sent
\* before any answer is looked at.
Dispatch_map ==
  /\ call.fn = "translateHtml"
  /\ frame.at = "map"
  /\ frame' = [ at |-> "await",
                order |-> << >>,
                outcomes |-> [ b \in 1..Len(call.batches) |-> "pending" ],
                batchPromises |-> [ b \in 1..Len(call.batches) |-> [ state |-> "pending" ] ],
                document |-> [ e \in 1..Cardinality(DOMAIN call.contentMap) |->
                                 NodeMarkup(e - 1) ] ]
  /\ UNCHANGED << call, result, pipeVars, streams >>

\* The request of one batch ends, in any order among the batches; the order
\* is kept in frame.order.
Dispatch_settle ==
  /\ call.fn = "translateHtml"
  /\ frame.at = "await"
  /\ \E b \in 1..Len(call.batches), outcome \in BatchOutcomes :
       /\ frame.batchPromises[b].state = "pending"
       /\ frame' = [ frame EXCEPT
            !.order = Append(@, b),
            !.outcomes[b] = outcome,
            !.batchPromises[b] = processBatch(call.batches[b], outcome) ]
  /\ UNCHANGED << call, result, pipeVars, streams >>

\* Promise.all going on as soon as one promise is fulfilled, the groups of
\* the requests still outstanding left pending.
Dispatch_all_eager ==
  /\ call.fn = "translateHtml"
  /\ frame.at = "await"
  /\ \E b \in 1..Len(call.batches) : frame.batchPromises[b].state = "fulfilled"
  /\ frame' = [ at |-> "apply", order |-> frame.order,
                outcomes |-> frame.outcomes,
                translatedBatches |-> frame.batchPromises,
                document |-> frame.document,
                b |-> 1, i |-> 1, appliedTranslations |-> 0 ]
  /\ UNCHANGED << call, result, pipeVars, streams >>

\* Promise.all going on as soon as one promise is fulfilled, with an empty
\* group for every request still outstanding.
Dispatch_all_race ==
  /\ call.fn = "translateHtml"
  /\ frame.at = "await"
  /\ \E b \in 1..Len(call.batches) : frame.batchPromises[b].state = "fulfilled"
  /\ frame' = [ at |-> "apply", order |-> frame.order,
                outcomes |-> frame.outcomes,
                translatedBatches |->
                  [ b \in 1..Len(call.batches) |->
                      IF frame.batchPromises[b].state = "fulfilled"
                      THEN frame.batchPromises[b]
                      ELSE [ state |-> "fulfilled", iterable |-> TRUE, value |-> << >> ] ],
                document |-> frame.document,
                b |-> 1, i |-> 1, appliedTranslations |-> 0 ]
  /\ UNCHANGED << call, result, pipeVars, streams >>

\* "await Promise.all(batchPromises)": goes on when every promise is
\* fulfilled, throws as soon as one is rejected.
Dispatch_all ==
  /\ call.fn = "translateHtml"
  /\ frame.at = "await"
  /\ \/ /\ \A b \in 1..Len(call.batches) : frame.batchPromises[b].state = "fulfilled"
        /\ frame' = [ at |-> "apply", order |-> frame.order,
                      outcomes |-> frame.outcomes,
                      translatedBatches |-> frame.batchPromises,
                      document |-> frame.document,
                      b |-> 1, i |-> 1, appliedTranslations |-> 0 ]
     \/ /\ \E b \in 1..Len(call.batches) : frame.batchPromises[b].state = "rejected"
        /\ frame' = [ at |-> "catch", order |-> frame.order,
                      outcomes |-> frame.outcomes,
                      document |-> frame.document ]
  /\ UNCHANGED << call, result, pipeVars, streams >>

\* The apply loop taking the node of an item from the item's place in its
\* batch, not from its id: a mistaken variant.
Apply_item_byPlace ==
  /\ call.fn = "translateHtml"
  /\ frame.at = "apply"
  /\ frame.b <= Len(frame.translatedBatches)
  /\ LET translated == frame.translatedBatches[frame.b]
     IN  IF ~translated.iterable
         THEN frame' = [ at |-> "catch", order |-> frame.order,
                         outcomes |-> frame.outcomes,
                         document |-> frame.document ]
         ELSE IF frame.i > Len(translated.value)
         THEN frame' = [ frame EXCEPT !.b = @ + 1, !.i = 1 ]
         ELSE LET translatedItem == translated.value[frame.i]
              IN  IF ~translatedItem.isString
                  THEN frame' = [ at |-> "catch", order |-> frame.order,
                                  outcomes |-> frame.outcomes,
                                  document |-> frame.document ]
                  ELSE LET original ==
                             call.contentMap[call.batches[frame.b][frame.i].id]
                       IN  frame' = [ frame EXCEPT
                             !.i = @ + 1,
                             !.appliedTranslations = @ + 1,
                             !.document[original.element] =
                               replaceTextWhilePreservingTags(original.html,
                                 original.parentText, translatedItem.text) ]
  /\ UNCHANGED << call, result, pipeVars, streams >>

\* One step of "translatedBatches.forEach((translatedItems) => { for (const
\* translatedItem of translatedItems) ... })": the next batch when the items
\* of this one are used up, else the next item. A value that cannot be
\* iterated and a text that is no string make the loop throw.
Apply_item ==
  /\ call.fn = "translateHtml"
  /\ frame.at = "apply"
  /\ frame.b <= Len(frame.translatedBatches)
  /\ LET translated == frame.translatedBatches[frame.b]
     IN  IF ~translated.iterable
         THEN frame' = [ at |-> "catch", order |-> frame.order,
                         outcomes |-> frame.outcomes,
                         document |-> frame.document ]
         ELSE IF frame.i > Len(translated.value)
         THEN frame' = [ frame EXCEPT !.b = @ + 1, !.i = 1 ]
         ELSE LET translatedItem == translated.value[frame.i]
              IN  IF translatedItem.id \notin DOMAIN call.contentMap
                  THEN frame' = [ frame EXCEPT !.i = @ + 1 ]
                  ELSE IF ~translatedItem.isString
                  THEN frame' = [ at |-> "catch", order |-> frame.order,
                                  outcomes |-> frame.outcomes,
                                  document |-> frame.document ]
                  ELSE LET original == call.contentMap[translatedItem.id]
                       IN  frame' = [ frame EXCEPT
                             !.i = @ + 1,
                             !.appliedTranslations = @ + 1,
                             !.document[original.element] =
                               replaceTextWhilePreservingTags(original.html,
                                 original.parentText, translatedItem.text) ]
  /\ UNCHANGED << call, result, pipeVars, streams >>

\* "return $.html()"
Apply_return ==
  /\ call.fn = "translateHtml"
  /\ frame.at = "apply"
  /\ frame.b > Len(frame.translatedBatches)
  /\ frame' = [ frame EXCEPT !.at = "end" ]
  /\ result' = [ done |-> TRUE, threw |-> FALSE, html |-> frame.document ]
  /\ UNCHANGED << call, pipeVars, streams >>

\* "catch (error) { ...; throw new Error(`Failed to translate content: ...`) }"
translateHtml_catch ==
  /\ call.fn = "translateHtml"
  /\ frame.at = "catch"
  /\ frame' = [ frame EXCEPT !.at = "end" ]
  /\ result' = [ done |-> TRUE, threw |-> TRUE ]
  /\ UNCHANGED << call, pipeVars, streams >>

DispatchNext ==
  \/ Dispatch_map
  \/ Dispatch_settle
  \/ Dispatch_all
  \/ Apply_item
  \/ Apply_return
  \/ translateHtml_catch

DispatchSpec == DispatchInit /\ [][DispatchNext]_vars

Dispatched == call.fn = "translateHtml" /\ result.done

\* The node of a chunk holds its translation, laid into its original markup.
Reconstructed(chunk, html) ==
  LET original == call.contentMap[chunk.id]
  IN  html[original.element] =
        replaceTextWhilePreservingTags(original.html, original.parentText,
                                       t_Bonjour_monde)

\* C13: when every batch either fails in one of the three named ways
\* (transport error, empty response, unparsable payload) or is answered well,
\* each failed batch yields no translation, translateHtml does not throw, and
\* every chunk of every batch answered well has its translation in the
\* returned document.
C13_FailedBatchIsolated ==
  (Dispatched /\ \A b \in 1..Len(call.batches) :
                   frame.outcomes[b] \in FailedRequest \cup { "translated" }) =>
    /\ ~result.threw
    /\ \A b \in 1..Len(call.batches) :
         /\ frame.outcomes[b] \in FailedRequest =>
              frame.translatedBatches[b].value = << >>
         /\ frame.outcomes[b] = "translated" =>
              \A i \in 1..Len(call.batches[b]) :
                Reconstructed(call.batches[b][i], result.html)

\* translateHtml has returned after one batch failed in transport and another
\* was answered well.
C13_Witness ==
  /\ Dispatched
  /\ ~result.threw
  /\ \A b \in 1..Len(call.batches) :
       frame.outcomes[b] \in FailedRequest \cup { "translated" }
  /\ \E b \in 1..Len(call.batches) : frame.outcomes[b] = "transportError"
  /\ \E b \in 1..Len(call.batches) :
       /\ frame.outcomes[b] = "translated"
       /\ Reconstructed(call.batches[b][1], result.html)

\* C14: when the reinsertion of a node fails with an internal error (the
\* item's text is no string), translateHtml does not throw, that node keeps
\* its original inner markup, and every other node with a well-formed
\* translation is reconstructed.
C14_NodeFailureIsolated ==
  (Dispatched /\ \A b \in 1..Len(call.batches) :
                   frame.outcomes[b] \in FailedRequest \cup { "translated", "textNotString" }) =>
    /\ ~result.threw
    /\ \A b \in 1..Len(call.batches) :
         frame.outcomes[b] \in { "translated", "textNotString" } =>
           \A i \in 1..Len(call.batches[b]) :
             IF frame.outcomes[b] = "textNotString" /\ i = 1
             THEN result.html[call.contentMap[call.batches[b][i].id].element]
                    = call.contentMap[call.batches[b][i].id].html
             ELSE Reconstructed(call.batches[b][i], result.html)

-----------------------------------------------------------------------------
\* GET /api/jobs/[jobId]/progress (progress/route.ts 4-72): the progress
\* stream of one observer, next to the upload and the pipeline of the job it
\* watches.
\*
\* A store read and what follows it up to the next await are one step: the
\* snapshot is the job as it is when the read resolves. The callbacks of
\* setInterval may overlap, a new one starting while the read of an older one
\* is pending.

Observers == { "o1" }

\* The job whose upload and pipeline run beside the streams.
StreamJobs == { "j1" }

MaxEvents == 3

MaxPending == 2

\* The places of the terminal snapshots among the events delivered on a stream.
TerminalEvents(o) ==
  { i \in 1..Len(streams[o].delivered) : Terminal(streams[o].delivered[i].status) }

\* "controller.enqueue(...)" on a stream: the event is delivered while the
\* stream is open; on a closed stream enqueue throws a TypeError.
enqueue(stream, event) ==
  IF stream.controller = "open"
  THEN [ stream EXCEPT !.delivered = Append(@, event) ]
  ELSE [ stream EXCEPT !.thrown = @ \cup { "enqueue" } ]

\* "controller.close()": throws a TypeError on a stream closed before.
close(stream) ==
  IF stream.controller = "open"
  THEN [ stream EXCEPT !.controller = "closed" ]
  ELSE [ stream EXCEPT !.thrown = @ \cup { "close" } ]

\* The handler up to "return new NextResponse(stream, ...)": 404 when the job
\* does not exist; else the stream is built and start(controller) runs: the
\* initial sendEvent is called and left pending at its store read, the
\* interval is set, the abort listener is added.
GET(o, j) ==
  /\ o \notin DOMAIN streams
  /\ streams' = streams @@
       (o :> IF j \notin DOMAIN jobs
             THEN [ jobId |-> j, status |-> 404, controller |-> "none",
                    intervalId |-> "none", initial |-> "none", pending |-> 0,
                    delivered |-> << >>, thrown |-> {}, aborted |-> FALSE ]
             ELSE [ jobId |-> j, status |-> 200, controller |-> "open",
                    intervalId |-> "set", initial |-> "pending", pending |-> 0,
                    delivered |-> << >>, thrown |-> {}, aborted |-> FALSE ])
  /\ UNCHANGED << pipeVars, fnVars >>

\* The initial "sendEvent(jobId)" goes on after its store read: the snapshot
\* is enqueued; what it returns is dropped.
sendEvent_initial(o) ==
  /\ o \in DOMAIN streams
  /\ streams[o].initial = "pending"
  /\ LET j == streams[o].jobId
     IN  streams' = [ streams EXCEPT ![o] =
           [ enqueue(@, formatJobResponse(jobs[j], files[j]))
               EXCEPT !.initial = "done" ] ]
  /\ UNCHANGED << pipeVars, fnVars >>

RECURSIVE Looked(_)
\* The events delivered and the store reads pending on the streams of the
\* observers in S, all together.
Looked(S) ==
  IF S = {} THEN 0
  ELSE LET o == CHOOSE x \in S : TRUE
       IN  Len(streams[o].delivered) + streams[o].pending + Looked(S \ {o})

RECURSIVE Reading(_)
\* The store reads that interval callbacks of the observers in S wait for.
Reading(S) ==
  IF S = {} THEN 0
  ELSE LET o == CHOOSE x \in S : TRUE
       IN  streams[o].pending + Reading(S \ {o})

\* The interval fires: the callback calls sendEvent, which waits for its
\* store read. The number of events looked at, on all streams together, is
\* MaxEvents, and beyond it the callback that finds the job terminal; at
\* most MaxPending callbacks wait for their read at a time.
interval(o) ==
  /\ o \in DOMAIN streams
  /\ streams[o].intervalId = "set"
  /\ Reading(DOMAIN streams) < MaxPending
  /\ \/ Looked(DOMAIN streams) < MaxEvents
     \/ /\ Terminal(jobs[streams[o].jobId].status)
        /\ streams[o].pending = 0
        /\ Cardinality(TerminalEvents(o)) < 2
  /\ streams' = [ streams EXCEPT ![o].pending = @ + 1 ]
  /\ UNCHANGED << pipeVars, fnVars >>

\* The interval callback ending the stream on COMPLETED only: the stream of
\* a FAILED job is never closed by it.
interval_sendEvent_completedOnly(o) ==
  /\ o \in DOMAIN streams
  /\ streams[o].pending > 0
  /\ LET j == streams[o].jobId
         formattedJob == formatJobResponse(jobs[j], files[j])
         stream == [ streams[o] EXCEPT !.pending = @ - 1 ]
     IN  streams' = [ streams EXCEPT ![o] =
           IF stream.controller # "open" THEN enqueue(stream, formattedJob)
           ELSE IF formattedJob.status = "COMPLETED"
                THEN [ close(enqueue(stream, formattedJob))
                         EXCEPT !.intervalId = "cleared" ]
                ELSE enqueue(stream, formattedJob) ]
  /\ UNCHANGED << pipeVars, fnVars >>

\* A callback of the interval goes on after its store read: the snapshot is
\* enqueued, and "if (!formattedJob || status is COMPLETED or FAILED)
\* { clearInterval(intervalId); controller.close(); }". When enqueue throws,
\* the rest of the callback is not run.
interval_sendEvent(o) ==
  /\ o \in DOMAIN streams
  /\ streams[o].pending > 0
  /\ LET j == streams[o].jobId
         formattedJob == formatJobResponse(jobs[j], files[j])
         stream == [ streams[o] EXCEPT !.pending = @ - 1 ]
     IN  streams' = [ streams EXCEPT ![o] =
           IF stream.controller # "open" THEN enqueue(stream, formattedJob)
           ELSE IF Terminal(formattedJob.status)
                THEN [ close(enqueue(stream, formattedJob))
                         EXCEPT !.intervalId = "cleared" ]
                ELSE enqueue(stream, formattedJob) ]
  /\ UNCHANGED << pipeVars, fnVars >>

\* An abort listener that also ends the pipeline of the job observed.
abort_cancels(o) ==
  /\ o \in DOMAIN streams
  /\ streams[o].status = 200
  /\ ~streams[o].aborted
  /\ streams' = [ streams EXCEPT ![o] =
       [ close(@) EXCEPT !.intervalId = "cleared", !.aborted = TRUE ] ]
  /\ pc' = [ pc EXCEPT ![streams[o].jobId] = "done" ]
  /\ UNCHANGED << jobs, files, response, nFiles, idx, extractedContents,
                  artifacts, converted, generated, writes >>
  /\ UNCHANGED fnVars

\* The client goes away: "clearInterval(intervalId); controller.close()".
abort(o) ==
  /\ o \in DOMAIN streams
  /\ streams[o].status = 200
  /\ ~streams[o].aborted
  /\ streams' = [ streams EXCEPT ![o] =
       [ close(@) EXCEPT !.intervalId = "cleared", !.aborted = TRUE ] ]
  /\ UNCHANGED << pipeVars, fnVars >>

StreamNext ==
  \/ \E j \in StreamJobs :
       \/ POST_invalid(j)
       \/ POST_createJob(j)
       \/ POST_file(j)
       \/ POST_accept(j)
       \/ POST_throws(j)
       \/ processJob(j)
       \/ processJob_throws(j)
       \/ processJob_catch(j)
       \/ extractAndTranslate_getJob(j)
       \/ extractAndTranslate_file(j)
       \/ extractAndTranslate_update(j)
       \/ extractAndTranslate_throws(j)
       \/ extractAndTranslate_catch(j)
       \/ generateFinalPdfs_update(j)
       \/ generateFinalPdfs_file(j)
       \/ generateFinalPdfs_complete(j)
       \/ generateFinalPdfs_throws(j)
       \/ generateFinalPdfs_catch(j)
       \/ catch_throws(j)
  \/ \E o \in Observers :
       \/ \E j \in JobIds : GET(o, j)
       \/ sendEvent_initial(o)
       \/ interval(o)
       \/ interval_sendEvent(o)
       \/ abort(o)

StreamSpec == Init /\ [][StreamNext]_vars

\* C20: on every progress stream a snapshot with status COMPLETED or FAILED
\* is delivered at most once, it is the last event of the stream, and the
\* stream is closed by the step that delivers it, whenever the observer
\* connected.
C20_TerminalDeliveredOnce ==
  \A o \in DOMAIN streams :
    /\ Cardinality(TerminalEvents(o)) <= 1
    /\ \A i \in TerminalEvents(o) : i = Len(streams[o].delivered)

-----------------------------------------------------------------------------
\* The progress stream beside the pipeline of an accepted upload, with the
\* scheduling of the event loop: timers fire and pending reads resolve.

\* What POST /api/upload leaves when it has accepted a request of job "j1"
\* with one PDF: the row written by createJob and then by
\* updateJobProgress(PROCESSING, UPLOAD, 25), one file row, the answer 200,
\* and processJob started.
AcceptedInit ==
  /\ jobs = ("j1" :> POST_progress(createJob("fr")))
  /\ files = [ j \in JobIds |->
                 IF j = "j1"
                 THEN << addFile(j, FileName(1), join(uploadDir(j), FileName(1))) >>
                 ELSE << >> ]
  /\ pc = [ j \in JobIds |-> IF j = "j1" THEN "processJob" ELSE "idle" ]
  /\ response = [ j \in JobIds |-> IF j = "j1" THEN 200 ELSE 0 ]
  /\ nFiles = [ j \in JobIds |-> IF j = "j1" THEN 1 ELSE 0 ]
  /\ idx = [ j \in JobIds |-> IF j = "j1" THEN 2 ELSE 0 ]
  /\ extractedContents = [ j \in JobIds |-> << >> ]
  /\ artifacts = {}
  /\ converted = [ j \in JobIds |-> << >> ]
  /\ generated = [ j \in JobIds |-> << >> ]
  /\ writes = [ j \in JobIds |->
                  IF j = "j1"
                  THEN << Progress(createJob("fr")),
                          Progress(POST_progress(createJob("fr"))) >>
                  ELSE << >> ]
  /\ NoCall
  /\ NoStreams

\* The pipeline of the accepted job and the streams of its observers.
WatchNext ==
  \/ \E j \in StreamJobs :
       \/ processJob(j)
       \/ processJob_throws(j)
       \/ processJob_catch(j)
       \/ extractAndTranslate_getJob(j)
       \/ extractAndTranslate_file(j)
       \/ extractAndTranslate_update(j)
       \/ extractAndTranslate_throws(j)
       \/ extractAndTranslate_catch(j)
       \/ generateFinalPdfs_update(j)
       \/ generateFinalPdfs_file(j)
       \/ generateFinalPdfs_complete(j)
       \/ generateFinalPdfs_throws(j)
       \/ generateFinalPdfs_catch(j)
       \/ catch_throws(j)
  \/ \E o \in Observers :
       \/ \E j \in JobIds : GET(o, j)
       \/ sendEvent_initial(o)
       \/ interval(o)
       \/ interval_sendEvent(o)
       \/ abort(o)

\* What extractAndTranslate leaves when it hands the one file of job "j1",
\* converted, to generateFinalPdfs: the row (PROCESSING, TRANSLATE, 75) and
\* extractedContents with the file's entry.
GenerateInit ==
  /\ jobs = ("j1" :> extractAndTranslate_progress(createJob("fr")))
  /\ files = [ j \in JobIds |->
                 IF j = "j1"
                 THEN << addFile(j, FileName(1), join(uploadDir(j), FileName(1))) >>
                 ELSE << >> ]
  /\ pc = [ j \in JobIds |-> IF j = "j1" THEN "generateFinalPdfs" ELSE "idle" ]
  /\ response = [ j \in JobIds |-> IF j = "j1" THEN 200 ELSE 0 ]
  /\ nFiles = [ j \in JobIds |-> IF j = "j1" THEN 1 ELSE 0 ]
  /\ idx = [ j \in JobIds |-> IF j = "j1" THEN 2 ELSE 0 ]
  /\ extractedContents = [ j \in JobIds |->
       IF j = "j1"
       THEN << [ fileId |-> 1, filePath |-> join(uploadDir(j), FileName(1)) ] >>
       ELSE << >> ]
  /\ artifacts = {}
  /\ converted = [ j \in JobIds |-> IF j = "j1" THEN << "html" >> ELSE << >> ]
  /\ generated = [ j \in JobIds |-> << >> ]
  /\ writes = [ j \in JobIds |->
                  IF j = "j1"
                  THEN << Progress(createJob("fr")),
                          Progress(POST_progress(createJob("fr"))),
                          Progress(processJob_progress(createJob("fr"))),
                          Progress(extractAndTranslate_progress(createJob("fr"))) >>
                  ELSE << >> ]
  /\ NoCall
  /\ NoStreams

\* Two observers of one job.
Crowd == { "o1", "o2" }

\* generateFinalPdfs of the job and the streams of two observers.
CrowdNext ==
  \/ \E j \in StreamJobs :
       \/ generateFinalPdfs_update(j)
       \/ generateFinalPdfs_file(j)
       \/ generateFinalPdfs_complete(j)
       \/ generateFinalPdfs_throws(j)
       \/ generateFinalPdfs_catch(j)
       \/ catch_throws(j)
  \/ \E o \in Crowd :
       \/ \E j \in JobIds : GET(o, j)
       \/ sendEvent_initial(o)
       \/ interval(o)
       \/ interval_sendEvent(o)
       \/ abort(o)

CrowdSpec == GenerateInit /\ [][CrowdNext]_vars

\* The next step of job j's pipeline, whatever its outcome.
PipelineStep(j) ==
  \/ processJob(j)
  \/ processJob_throws(j)
  \/ processJob_catch(j)
  \/ extractAndTranslate_getJob(j)
  \/ extractAndTranslate_file(j)
  \/ extractAndTranslate_update(j)
  \/ extractAndTranslate_throws(j)
  \/ extractAndTranslate_catch(j)
  \/ generateFinalPdfs_update(j)
  \/ generateFinalPdfs_file(j)
  \/ generateFinalPdfs_complete(j)
  \/ generateFinalPdfs_throws(j)
  \/ generateFinalPdfs_catch(j)
  \/ catch_throws(j)

\* The timer of setInterval fires as long as the interval is set, and a store
\* read that is pending resolves.
StreamFairness ==
  \A o \in Observers : WF_vars(interval(o)) /\ WF_vars(interval_sendEvent(o))

\* An await of the pipeline settles and a timer it has set fires: the
\* pipeline takes its next step.
PipelineFairness == \A j \in StreamJobs : WF_vars(PipelineStep(j))

WatchSpec ==
  AcceptedInit /\ [][WatchNext]_vars /\ StreamFairness /\ PipelineFairness

\* The stream of observer o is open and its job is COMPLETED or FAILED.
OpenOnTerminalJob(o) ==
  /\ o \in DOMAIN streams
  /\ streams[o].controller = "open"
  /\ Terminal(jobs[streams[o].jobId].status)

\* The stream of observer o is closed, after a terminal snapshot was
\* delivered on it or after the client went away.
ClosedAfterTerminal(o) ==
  /\ o \in DOMAIN streams
  /\ streams[o].controller = "closed"
  /\ (TerminalEvents(o) # {} \/ streams[o].aborted)

\* C21: a progress stream that is open when its job is COMPLETED or FAILED
\* is closed later on, and the terminal snapshot has then been delivered on
\* it unless the client went away first; no stream stays open for ever.
C21_TerminalEventuallyDelivered ==
  \A o \in Observers : OpenOnTerminalJob(o) ~> ClosedAfterTerminal(o)

\* An interval callback has delivered the terminal snapshot and closed the
\* stream of an observer that did not go away.
C21_Witness ==
  \E o \in DOMAIN streams :
    /\ streams[o].controller = "closed"
    /\ ~streams[o].aborted
    /\ TerminalEvents(o) # {}
    /\ streams[o].intervalId = "cleared"

\* C22: a step of an observer (connecting, a snapshot delivered, the interval
\* firing, the client going away) writes nothing of the store, the disk or
\* the pipeline, and leaves the pipeline's next step as possible as it was;
\* so the writes of the pipeline are those it makes with no observer.
C22_ObserversReadOnly ==
  [][ streams' # streams =>
        /\ pipeVars' = pipeVars
        /\ \A j \in StreamJobs :
             (ENABLED PipelineStep(j))' = ENABLED PipelineStep(j) ]_vars

\* Two observers were connected to the job, one of them went away while the
\* pipeline was running, and the job has ended COMPLETED with its file
\* translated.
C22_Witness ==
  /\ DOMAIN streams = Crowd
  /\ \A o \in Crowd : streams[o].status = 200 /\ streams[o].jobId = "j1"
  /\ \E o \in Crowd :
       /\ streams[o].aborted
       /\ \A i \in 1..Len(streams[o].delivered) :
            ~ Terminal(streams[o].delivered[i].status)
  /\ \E o \in Crowd : ~streams[o].aborted /\ TerminalEvents(o) # {}
  /\ jobs["j1"].status = "COMPLETED"
  /\ files["j1"][1].translatedName # NULL
  /\ Len(writes["j1"]) = 6

-----------------------------------------------------------------------------
\* The files and directories the upload and the pipeline of a job write
\* (PathSpec): part_008 211-233, 275-281, 404-430 and pdfService.ts 48-58,
\* 516-550, for two jobs running side by side.
\*
\* A path is the sequence of its segments below the file system root; a
\* segment is a name and an extension.  file.name is what the client put in
\* the filename of the form part, and may hold separators and "..".

Dir(name) == [ name |-> name, ext |-> "" ]

Pdf(name) == [ name |-> name, ext |-> ".pdf" ]

RECURSIVE normalize(_, _)
\* path.normalize of an absolute path: "." and empty segments are dropped,
\* ".." removes the segment before it (and nothing at the root).
normalize(done, rest) ==
  IF rest = << >> THEN done
  ELSE IF Head(rest) \in { Dir("."), Dir("") } THEN normalize(done, Tail(rest))
  ELSE IF Head(rest) = Dir("..")
       THEN normalize(IF done = << >> THEN << >>
                      ELSE SubSeq(done, 1, Len(done) - 1), Tail(rest))
  ELSE normalize(Append(done, Head(rest)), Tail(rest))

\* path.join(a, b): the segments put together and normalized.
pathJoin(a, b) == normalize(<< >>, a \o b)

\* path.dirname(p)
pathDirname(p) == SubSeq(p, 1, Len(p) - 1)

\* path.basename(p)
pathBasename(p) == p[Len(p)]

\* path.basename(p, path.extname(p))
withoutExt(p) == Dir(pathBasename(p).name)

\* process.cwd()
cwd == << Dir("app") >>

\* path.join(process.cwd(), "uploads", jobId) as POST, processJob and
\* generateFinalPdfs build it.
jobDir(jobId) == pathJoin(cwd, << Dir("uploads"), Dir(jobId) >>)

\* The names a client gives the file it uploads.
UploadNames ==
  { << Pdf("f1") >>,
    << Dir(".."), Pdf("f1") >>,
    << Dir(".."), Dir("j2"), Pdf("f1") >> }

\* POST: "const filePath = path.join(uploadDir, file.name)".
filePathOf(jobId, name) == pathJoin(jobDir(jobId), name)

\* convertPdfToHtml: tempDir = path.join(path.dirname(filePath),
\* "temp_html_output").
tempDir(filePath) == pathJoin(pathDirname(filePath), << Dir("temp_html_output") >>)

\* convertPdfToHtml: outputHtmlPath = path.join(tempDir, `${fileName}.html`).
outputHtmlPath(filePath) ==
  pathJoin(tempDir(filePath),
           << [ name |-> withoutExt(filePath).name, ext |-> ".html" ] >>)

\* generateFinalPdfs: outputPath = path.join(translatedDir,
\* `translated_${path.basename(filePath)}`).
outputPath(jobId, filePath) ==
  pathJoin(jobDir(jobId),
           << Dir("translated"),
              [ pathBasename(filePath) EXCEPT !.name = "translated_" \o @ ] >>)

\* What job j has written so far, and the stage it is at.
PathInit ==
  /\ NoPipeline
  /\ NoStreams
  /\ \E names \in [ JobIds -> UploadNames ] :
       call = [ fn |-> "paths", names |-> names ]
  /\ frame = [ at |-> [ j \in JobIds |-> "POST" ],
               written |-> [ j \in JobIds |-> {} ] ]
  /\ result = [ done |-> FALSE ]

\* The frame after job j has written `paths` and gone on to stage `to`.
wrote(j, to, paths) ==
  [ frame EXCEPT !.at[j] = to, !.written[j] = @ \cup paths ]

\* POST: mkdir(uploadDir), then writeFile(filePath, buffer).
POST_writeFile(j) ==
  /\ call.fn = "paths"
  /\ frame.at[j] = "POST"
  /\ frame' = wrote(j, "processJob",
                    { jobDir(j), filePathOf(j, call.names[j]) })
  /\ UNCHANGED << pipeVars, call, result, streams >>

\* processJob: mkdir(translatedDir).
processJob_mkdir(j) ==
  /\ call.fn = "paths"
  /\ frame.at[j] = "processJob"
  /\ frame' = wrote(j, "extractAndTranslate",
                    { pathJoin(jobDir(j), << Dir("translated") >>) })
  /\ UNCHANGED << pipeVars, call, result, streams >>

\* extractAndTranslate: convertPdfToHtml(file.originalPath) makes tempDir and
\* has the tool write outputHtmlPath.
convertPdfToHtml_output(j) ==
  /\ call.fn = "paths"
  /\ frame.at[j] = "extractAndTranslate"
  /\ frame' = wrote(j, "generateFinalPdfs",
                    { tempDir(filePathOf(j, call.names[j])),
                      outputHtmlPath(filePathOf(j, call.names[j])) })
  /\ UNCHANGED << pipeVars, call, result, streams >>

\* generateFinalPdfs: generatePdfFromHtml(translatedHtml, outputPath) makes
\* the directory of outputPath and writes the artifact.
generatePdfFromHtml_writeFile(j) ==
  /\ call.fn = "paths"
  /\ frame.at[j] = "generateFinalPdfs"
  /\ frame' = wrote(j, "done",
                    { pathDirname(outputPath(j, filePathOf(j, call.names[j]))),
                      outputPath(j, filePathOf(j, call.names[j])) })
  /\ UNCHANGED << pipeVars, call, result, streams >>

PathNext ==
  \E j \in JobIds :
    \/ POST_writeFile(j)
    \/ processJob_mkdir(j)
    \/ convertPdfToHtml_output(j)
    \/ generatePdfFromHtml_writeFile(j)

PathSpec == PathInit /\ [][PathNext]_vars

\* Path p is the directory d or lies below it.
Under(p, d) == Len(p) >= Len(d) /\ SubSeq(p, 1, Len(d)) = d

\* C23 (as claimed): every file and directory the upload and the pipeline of
\* a job write lies under that job's own directory uploads/<jobId>.
C23_WritesUnderJobDir ==
  \A j \in JobIds : \A p \in frame.written[j] : Under(p, jobDir(j))

-----------------------------------------------------------------------------
\* File rows

\* The iterations of job j's generation loop that updated file row i.
Updates(j, i) ==
  { k \in 1..Len(generated[j]) :
      generated[j][k] = "ok" /\ extractedContents[j][k].fileId = i }

\* C24: a file row is changed after its creation only by an iteration of the
\* generation loop, from null translatedName and translatedPath to those of
\* its artifact, which is on disk by then; a row with a translated name or
\* path has its artifact on disk and was updated by exactly one iteration.
C24_FileModifiedOnce ==
  /\ [] ( \A j \in JobIds : \A i \in 1..Len(files[j]) :
            ( files[j][i].translatedName # NULL
              \/ files[j][i].translatedPath # NULL ) =>
              /\ files[j][i].translatedPath = ArtifactPath(j, files[j][i])
              /\ files[j][i].translatedPath \in artifacts
              /\ Cardinality(Updates(j, i)) = 1 )
  /\ [][ \A j \in JobIds : \A i \in 1..Len(files[j]) :
           files'[j][i] # files[j][i] =>
             /\ pc[j] = "generate_loop"
             /\ files[j][i].translatedName = NULL
             /\ files[j][i].translatedPath = NULL
             /\ files'[j][i] =
                  updateFileWithTranslation(files[j][i],
                    "translated_" \o files[j][i].originalName,
                    ArtifactPath(j, files[j][i]))
             /\ ArtifactPath(j, files[j][i]) \in artifacts' ]_vars

\* A job has ended with one file row updated and, of another file whose
\* artifact was written, the row left as it was created.
C24_Witness ==
  \E j \in DOMAIN jobs :
    /\ pc[j] = "done"
    /\ \E i \in 1..Len(files[j]) : files[j][i].translatedName # NULL
    /\ \E i \in 1..Len(files[j]) :
         /\ files[j][i].translatedName = NULL
         /\ ArtifactPath(j, files[j][i]) \in artifacts

-----------------------------------------------------------------------------
\* The pipeline of a one-file job, to its end

\* A call of the store or of mkdir has thrown in job j's pipeline.
StoreThrew(j) ==
  \/ pc[j] \in { "processJob_catch", "extract_catch", "generate_catch", "unhandled" }
  \/ jobs[j].status = "FAILED"
  \/ \E k \in 1..Len(generated[j]) : generated[j][k] = "storeThrows"

\* Job j has ended (COMPLETED, GENERATE, 100).
EndedCompleted(j) ==
  /\ pc[j] = "done"
  /\ Progress(jobs[j]) = Row("COMPLETED", "GENERATE", 100)

\* The conversion of job j's file and the translation and rendering of its
\* markup have all succeeded.
AllSucceeded(j) == converted[j] = << "html" >> /\ generated[j] = << "ok" >>

-----------------------------------------------------------------------------
\* Stage records and the work they name

\* The record (status, step, percentage) is among the writes of job j.
Written(j, row) == \E i \in 1..Len(writes[j]) : writes[j][i] = row

\* C26 (as claimed): (PROCESSING, EXTRACT, 50) is among a job's writes only
\* when the conversion of every file of the job has been attempted, and
\* (PROCESSING, TRANSLATE, 75) only when the translation of every extracted
\* markup has returned or thrown.
C26_RecordAfterEvent ==
  \A j \in JobIds :
    /\ Written(j, Row("PROCESSING", "EXTRACT", 50)) =>
         Len(converted[j]) = Len(files[j])
    /\ Written(j, Row("PROCESSING", "TRANSLATE", 75)) =>
         Len(generated[j]) = Len(extractedContents[j])

-----------------------------------------------------------------------------
\* translateHtml: answers that parse but are no array of items with a text

\* C27 (as claimed): when every batch is answered either well or with JSON
\* that is no array (notIterable) or has an item without a text
\* (textNotString), translateHtml does not throw and every item of the
\* batches answered well is reconstructed in the document.
C27_MalformedDiscarded ==
  ( Dispatched /\ \A b \in 1..Len(call.batches) :
      frame.outcomes[b] \in { "translated", "notIterable", "textNotString" } ) =>
    /\ ~result.threw
    /\ \A b \in 1..Len(call.batches) :
         frame.outcomes[b] = "translated" =>
           \A i \in 1..Len(call.batches[b]) :
             Reconstructed(call.batches[b][i], result.html)

-----------------------------------------------------------------------------
\* replaceTextWhilePreservingTags: the slices of the proportional branch

\* The slices "translatedText.substr(translatedIndex, translatedNodeLength)"
\* of the runs from child k on, in run order, translatedIndex characters of
\* the translation being handed out already.
RECURSIVE slices(_, _, _, _, _)
slices(html, originalLength, translatedText, k, translatedIndex) ==
  IF k > Len(html) THEN << >>
  ELSE IF ~isTextNode(html[k])
       THEN slices(html, originalLength, translatedText, k + 1, translatedIndex)
       ELSE << substr(translatedText, translatedIndex,
                      translatedNodeLength(Len(translatedText), Len(html[k].text),
                                           originalLength)) >>
            \o slices(html, originalLength, translatedText, k + 1,
                 translatedIndex
                 + translatedNodeLength(Len(translatedText), Len(html[k].text),
                                        originalLength))

\* C28 (as claimed): when the numbers of words differ and the node has more
\* than one text run, the slices of the runs, one after the other, are the
\* whole translated text; without a leading or trailing space to add, each
\* run holds its slice afterwards.
C28_SlicesCoverTranslation ==
  ( TokenCountMismatch /\ call.translatedText # << >> ) =>
    LET rs == runs(call.html, 1)
        given == slices(call.html, Len(call.originalText), call.translatedText, 1, 0)
    IN  /\ Concat(given) = call.translatedText
        /\ \A n \in 1..Len(rs) :
             ( Head(call.html[rs[n]].text) # " "
               /\ call.html[rs[n]].text[Len(call.html[rs[n]].text)] # " " ) =>
               frame.element[rs[n]].text = sanitize(<< [ tag |-> "", text |-> given[n] ] >>)[1].text

-----------------------------------------------------------------------------
\* translateHtml: the requests of the batches and the order they end in

\* The document as the extraction left it.
Untranslated ==
  [ e \in 1..Cardinality(DOMAIN call.contentMap) |-> NodeMarkup(e - 1) ]

\* A request is outstanding.
Outstanding == \E b \in 1..Len(call.batches) : frame.outcomes[b] = "pending"

\* C29: once the requests are made there is one promise per batch, all made
\* before any of them settled; while a request is outstanding nothing is
\* written into the document and the apply loop has not begun; the apply
\* loop works on one result group per batch, group b being what the request
\* of batch b gave.
C29_FanOutFanIn ==
  ( call.fn = "translateHtml" /\ frame.at # "map" ) =>
    /\ Len(frame.outcomes) = Len(call.batches)
    /\ frame.at = "await" => Len(frame.batchPromises) = Len(call.batches)
    /\ Outstanding => frame.at = "await" /\ frame.document = Untranslated
    /\ frame.at = "apply" =>
         /\ Len(frame.translatedBatches) = Len(call.batches)
         /\ \A b \in 1..Len(call.batches) :
              frame.translatedBatches[b]
                = processBatch(call.batches[b], frame.outcomes[b])

\* The apply loop is writing translations of a document of several batches,
\* one of whose requests failed, every request having ended.
C29_Witness ==
  /\ call.fn = "translateHtml"
  /\ frame.at = "apply"
  /\ Len(call.batches) >= 2
  /\ ~ Outstanding
  /\ \E b \in 1..Len(call.batches) : frame.outcomes[b] \in FailedRequest
  /\ frame.document # Untranslated

\* The items of the result groups, in batch order.
RECURSIVE itemsOf(_, _)
itemsOf(batches, outcomes) ==
  IF batches = << >> THEN << >>
  ELSE processBatch(Head(batches), Head(outcomes)).value
       \o itemsOf(Tail(batches), Tail(outcomes))

\* The document with the items from item i on laid in.
RECURSIVE laidIn(_, _, _)
laidIn(document, items, i) ==
  IF i > Len(items) THEN document
  ELSE IF items[i].id \notin DOMAIN call.contentMap
       THEN laidIn(document, items, i + 1)
       ELSE LET original == call.contentMap[items[i].id]
            IN  laidIn([ document EXCEPT ![original.element] =
                           replaceTextWhilePreservingTags(original.html,
                             original.parentText, items[i].text) ],
                       items, i + 1)

\* Some result group makes the apply loop throw.
Throwing(batches, outcomes) ==
  \E b \in 1..Len(batches) :
    \/ ~ processBatch(batches[b], outcomes[b]).iterable
    \/ \E i \in 1..Len(processBatch(batches[b], outcomes[b]).value) :
         /\ ~ processBatch(batches[b], outcomes[b]).value[i].isString
         /\ processBatch(batches[b], outcomes[b]).value[i].id \in DOMAIN call.contentMap

\* C30: what translateHtml returns, or that it throws, is given by the
\* results of the batches alone, whatever order the requests ended in: the
\* document is the extracted one with the items of the groups laid in, in
\* batch order.
C30_OrderIndependent ==
  Dispatched =>
    /\ result.threw = Throwing(call.batches, frame.outcomes)
    /\ ~result.threw =>
         result.html = laidIn(Untranslated, itemsOf(call.batches, frame.outcomes), 1)

\* translateHtml has returned a translated document after the request of a
\* later batch ended before that of an earlier one.
C30_Witness ==
  /\ Dispatched
  /\ ~result.threw
  /\ \E m, n \in 1..Len(frame.order) :
       m < n /\ frame.order[m] > frame.order[n]
  /\ \A b \in 1..Len(call.batches) : frame.outcomes[b] = "translated"
  /\ result.html # Untranslated

-----------------------------------------------------------------------------
\* translateHtml: the batching loop is greedy

\* C31: once the loop has returned, for every two consecutive batches the
\* text length of the earlier one plus the length of the first chunk of the
\* later one is greater than the budget: a batch was closed only because the
\* next chunk did not fit.
C31_GreedyBatches ==
  Batched =>
    \A b \in 1..Len(result.batches) :
      b < Len(result.batches) =>
        TotalLength(result.batches[b]) + result.batches[b + 1][1].length
          > MAX_BATCH_SIZE

\* A batch of two chunks below the budget was closed by a chunk that is
\* itself within the budget.
C31_Witness ==
  /\ Batched
  /\ \E b \in 1..Len(result.batches) :
       /\ b < Len(result.batches)
       /\ Len(result.batches[b]) = 2
       /\ TotalLength(result.batches[b]) < MAX_BATCH_SIZE
       /\ result.batches[b + 1][1].length <= MAX_BATCH_SIZE

-----------------------------------------------------------------------------
\* replaceTextWhilePreservingTags: the placeholder tokens

\* The token occurs in the text.
occursIn(token, s) ==
  \E p \in 0..(Len(s) - Len(token)) : SubSeq(s, p + 1, p + Len(token)) = token

placeholderTokens == { t_undefined, t_null, t_NaN }

\* C32: after a node's markup was rebuilt from a translation that differs
\* from its original text, no text of the node's inner markup holds
\* "undefined", "null" or "NaN", whichever of the three ways rebuilt it.
C32_NoPlaceholderTokens ==
  (Reinserted /\ call.translatedText # call.originalText) =>
    \A k \in 1..Len(frame.element) :
      \A token \in placeholderTokens : ~occursIn(token, frame.element[k].text)

-----------------------------------------------------------------------------
\* translateHtml: nodes without a result, results without a node

\* Some result group the apply loop gets holds an item with this id.
Returned(id) ==
  \E b \in 1..Len(call.batches) :
    /\ frame.outcomes[b] # "pending"
    /\ \E i \in 1..Len(processBatch(call.batches[b], frame.outcomes[b]).value) :
         processBatch(call.batches[b], frame.outcomes[b]).value[i].id = id

\* The apply loop is at an item whose id no extracted chunk has.
AtUnknownId ==
  /\ call.fn = "translateHtml"
  /\ frame.at = "apply"
  /\ frame.b <= Len(frame.translatedBatches)
  /\ frame.translatedBatches[frame.b].iterable
  /\ frame.i <= Len(frame.translatedBatches[frame.b].value)
  /\ frame.translatedBatches[frame.b].value[frame.i].id \notin DOMAIN call.contentMap

\* C33: from the requests on, whether translateHtml returns or throws, every
\* node whose id no returned item carries (its batch failed, or the answer
\* left it out) has its original inner markup; and the step of the apply
\* loop over an item whose id matches no extracted chunk leaves the whole
\* document as it was.
C33_UnmatchedLeftAlone ==
  /\ []( ( call.fn = "translateHtml" /\ frame.at # "map" ) =>
           \A id \in DOMAIN call.contentMap :
             ~ Returned(id) =>
               frame.document[call.contentMap[id].element] = call.contentMap[id].html )
  /\ [][ AtUnknownId => frame'.document = frame.document ]_vars

\* translateHtml has returned a document in which a node left out of an
\* answer has its original markup beside a translated node of the same
\* batch, another batch having been answered with unknown ids only.
C33_Witness ==
  /\ Dispatched
  /\ ~result.threw
  /\ \E b \in 1..Len(call.batches) : frame.outcomes[b] = "unknownIds"
  /\ \E b \in 1..Len(call.batches) :
       /\ frame.outcomes[b] = "leftOut"
       /\ Len(call.batches[b]) >= 2
       /\ ~ Returned(call.batches[b][1].id)
       /\ result.html[call.contentMap[call.batches[b][1].id].element]
            = call.contentMap[call.batches[b][1].id].html
       /\ Reconstructed(call.batches[b][2], result.html)
       /\ result.html[call.contentMap[call.batches[b][2].id].element]
            # call.contentMap[call.batches[b][2].id].html

-----------------------------------------------------------------------------
\* The pipeline: does every accepted job end?

\* C34: a job that is PROCESSING is COMPLETED or FAILED later on, whenever
\* every await of its pipeline settles and every timer it set fires,
\* whatever fails in a stage or in a callback.
C34_ProcessingEnds ==
  \A j \in StreamJobs :
    ( j \in DOMAIN jobs /\ jobs[j].status = "PROCESSING" )
      ~> ( j \in DOMAIN jobs /\ Terminal(jobs[j].status) )

-----------------------------------------------------------------------------
\* The progress stream after its close

\* C35: no call of controller.enqueue and no call of controller.close is
\* made on a stream closed before, in any interleaving of the initial send,
\* the interval callbacks and the abort listener: neither call ever throws.
C35_NothingAfterClose ==
  \A o \in DOMAIN streams : streams[o].thrown = {}

-----------------------------------------------------------------------------
\* POST: what a rejected upload leaves in the store

\* C36: a request answered 400 has left no job row and no file row of its
\* own in the store, and no pipeline runs for it.
C36_RejectedLeavesNothing ==
  \A j \in JobIds :
    response[j] = 400 =>
      /\ j \notin DOMAIN jobs
      /\ files[j] = << >>
      /\ pc[j] = "responded"

-----------------------------------------------------------------------------
\* File rows and terminal snapshots

\* The snapshot lists the file row with index i.
Lists(event, i) == \E r \in 1..Len(event.results) : event.results[r].id = i

\* C37: no file row of a job changes once the job's status is COMPLETED or
\* FAILED; and every snapshot with a terminal status that was delivered on a
\* stream lists every file row of its job that carries a translation.
C37_TerminalSnapshotComplete ==
  /\ [][ \A j \in DOMAIN jobs :
           Terminal(jobs[j].status) => files'[j] = files[j] ]_vars
  /\ []( \A o \in DOMAIN streams :
           \A e \in TerminalEvents(o) :
             \A i \in 1..Len(files[streams[o].jobId]) :
               files[streams[o].jobId][i].translatedName # NULL
                 => Lists(streams[o].delivered[e], i) )

\* An observer has received the COMPLETED snapshot of a job of two files,
\* which lists both, each translated by then.
C37_Witness ==
  \E o \in DOMAIN streams :
    \E e \in TerminalEvents(o) :
      /\ streams[o].delivered[e].status = "COMPLETED"
      /\ Len(files[streams[o].jobId]) = 2
      /\ \A i \in 1..Len(files[streams[o].jobId]) :
           /\ files[streams[o].jobId][i].translatedName # NULL
           /\ Lists(streams[o].delivered[e], i)

====
